---- MODULE Spec2Model ----
(***************************************************************************)
(* Model of the injection-safe validation layer (pkg/validation) and the   *)
(* relational source (pkg/sources/database) of codexgigantus.              *)
(*                                                                         *)
(* Go strings are modelled as sequences of one-character strings, so that  *)
(* ToUpper, Contains, HasPrefix, TrimSpace, the identifier pattern and     *)
(* filepath.Clean are computed character by character.                     *)
(***************************************************************************)
EXTENDS Integers, Sequences, FiniteSets, TLC

VARIABLES
    arg,        \* the string handed to a validator
    ret,        \* outcome of the last call: [op, err, val]
    p,          \* the exported fields of database.Processor
    db,         \* Processor.db: 0 is nil, otherwise the index of a handle
    handles,    \* every *sql.DB opened so far: "open" or "closed"
    executed,   \* the queries sent to the database through db.Query, in order
    established \* history: a Connect has succeeded and Close was not called since

dbVars == <<p, db, handles, executed, established>>
vars == <<arg, ret, p, db, handles, executed, established>>

(***************************************************************************)
(* Bounds of the model.                                                    *)
(***************************************************************************)
MaxTokens == 3
MaxHandles == 2
MaxExecuted == 2
MaxRoots == 2
MaxLines == 3

(***************************************************************************)
(* strings                                                                 *)
(***************************************************************************)
nil == "nil"

lowerLetters == <<"a","b","c","d","e","f","g","h","i","j","k","l","m",
                  "n","o","p","q","r","s","t","u","v","w","x","y","z">>
upperLetters == <<"A","B","C","D","E","F","G","H","I","J","K","L","M",
                  "N","O","P","Q","R","S","T","U","V","W","X","Y","Z">>
digitChars == {"0","1","2","3","4","5","6","7","8","9"}

IsLower(c) == \E i \in DOMAIN lowerLetters : lowerLetters[i] = c
IsUpper(c) == \E i \in DOMAIN upperLetters : upperLetters[i] = c
IsLetter(c) == IsLower(c) \/ IsUpper(c)
IsDigit(c) == c \in digitChars

ToUpperChar(c) ==
    IF IsLower(c)
    THEN upperLetters[CHOOSE i \in DOMAIN lowerLetters : lowerLetters[i] = c]
    ELSE c

ToLowerChar(c) ==
    IF IsUpper(c)
    THEN lowerLetters[CHOOSE i \in DOMAIN upperLetters : upperLetters[i] = c]
    ELSE c

ToUpper(s) == [i \in 1..Len(s) |-> ToUpperChar(s[i])]
ToLower(s) == [i \in 1..Len(s) |-> ToLowerChar(s[i])]

Contains(s, sub) ==
    \E i \in 0..(Len(s) - Len(sub)) : \A j \in 1..Len(sub) : s[i + j] = sub[j]

HasPrefix(s, pre) ==
    Len(s) >= Len(pre) /\ \A j \in 1..Len(pre) : s[j] = pre[j]

Repeat(c, n) == [i \in 1..n |-> c]

RECURSIVE Flatten(_)
Flatten(ts) == IF ts = <<>> THEN <<>> ELSE Head(ts) \o Flatten(Tail(ts))

SeqsUpTo(S, n) == UNION {[1..k -> S] : k \in 0..n}

(***************************************************************************)
(* pkg/validation: constants and pattern tables                            *)
(***************************************************************************)
MaxPathLength == 4096
MaxQueryLength == 10000
MaxTableNameLength == 128

\* ^[a-zA-Z][a-zA-Z0-9_]*$
sqlIdentifierPattern(s) ==
    /\ Len(s) >= 1
    /\ IsLetter(s[1])
    /\ \A i \in 2..Len(s) : IsLetter(s[i]) \/ IsDigit(s[i]) \/ s[i] = "_"

sqlInjectionPatterns == <<
    <<"-","-">>,
    <<"/","*">>,
    <<"*","/">>,
    <<";">>,
    <<"'">>,
    <<"\"">>,
    <<"x","p","_">>,
    <<"s","p","_">>,
    <<"D","R","O","P"," ">>,
    <<"I","N","S","E","R","T"," ">>,
    <<"U","P","D","A","T","E"," ">>,
    <<"D","E","L","E","T","E"," ">>,
    <<"E","X","E","C">>,
    <<"U","N","I","O","N">> >>

ValidateSQLIdentifier(name) ==
    IF name = <<>> THEN "cannot be empty"
    ELSE IF Len(name) > MaxTableNameLength THEN "exceeds maximum length"
    ELSE IF ~sqlIdentifierPattern(name) THEN "must contain only alphanumeric characters and underscores"
    ELSE LET upperName == ToUpper(name) IN
         IF \E i \in DOMAIN sqlInjectionPatterns : Contains(upperName, sqlInjectionPatterns[i])
         THEN "contains potentially dangerous SQL characters or keywords"
         ELSE nil

whitespaceChars == {" ", "\t", "\n", "\r", "\f"}

\* strings.TrimSpace: the slice between the first and the last non-space character
TrimSpace(s) ==
    LET keep == {i \in 1..Len(s) : s[i] \notin whitespaceChars} IN
    IF keep = {} THEN <<>>
    ELSE SubSeq(s, CHOOSE i \in keep : \A j \in keep : i <= j,
                   CHOOSE i \in keep : \A j \in keep : i >= j)

dangerousKeywordsNoLoadFile == <<
    <<"D","R","O","P">>,
    <<"D","E","L","E","T","E">>,
    <<"U","P","D","A","T","E">>,
    <<"I","N","S","E","R","T">>,
    <<"A","L","T","E","R">>,
    <<"C","R","E","A","T","E">>,
    <<"E","X","E","C">>,
    <<"E","X","E","C","U","T","E">>,
    <<"x","p","_">>,
    <<"s","p","_">>,
    <<"I","N","T","O"," ","O","U","T","F","I","L","E">>,
    <<"I","N","T","O"," ","D","U","M","P","F","I","L","E">> >>

dangerousKeywords == <<
    <<"D","R","O","P">>,
    <<"D","E","L","E","T","E">>,
    <<"U","P","D","A","T","E">>,
    <<"I","N","S","E","R","T">>,
    <<"A","L","T","E","R">>,
    <<"C","R","E","A","T","E">>,
    <<"E","X","E","C">>,
    <<"E","X","E","C","U","T","E">>,
    <<"x","p","_">>,
    <<"s","p","_">>,
    <<"I","N","T","O"," ","O","U","T","F","I","L","E">>,
    <<"I","N","T","O"," ","D","U","M","P","F","I","L","E">>,
    <<"L","O","A","D","_","F","I","L","E">> >>

ValidateCustomQuery(query) ==
    IF query = <<>> THEN nil
    ELSE IF Len(query) > MaxQueryLength THEN "exceeds maximum length"
    ELSE LET upperQuery == TrimSpace(ToUpper(query)) IN
         IF ~HasPrefix(upperQuery, <<"S","E","L","E","C","T">>)
         THEN "must be a SELECT statement"
         ELSE IF \E i \in DOMAIN dangerousKeywords : Contains(upperQuery, dangerousKeywords[i])
         THEN "contains forbidden keyword"
         ELSE nil

\* The grave accent, written by name.
backtick == "backtick"

pathTraversalPatterns == << <<".",".">>, <<"~">>, <<"$">>, <<"|">>, <<";">>,
                            <<"&">>, <<backtick>>, <<"<">>, <<">">> >>

\* The components of a path: the pieces between the separators.
RECURSIVE Split(_, _)
Split(s, sep) ==
    IF \A i \in 1..Len(s) : s[i] # sep THEN <<s>>
    ELSE LET k == CHOOSE i \in 1..Len(s) : s[i] = sep /\ \A j \in 1..(i - 1) : s[j] # sep
         IN <<SubSeq(s, 1, k - 1)>> \o Split(SubSeq(s, k + 1, Len(s)), sep)

RECURSIVE Join(_, _)
Join(elems, sep) ==
    IF elems = <<>> THEN <<>>
    ELSE IF Len(elems) = 1 THEN elems[1]
    ELSE elems[1] \o sep \o Join(Tail(elems), sep)

\* filepath.Clean element by element: empty and "." elements are dropped, ".."
\* removes the element before it, is dropped at the root, and is kept at the
\* front of a relative path.
RECURSIVE CleanElems(_, _, _)
CleanElems(elems, out, rooted) ==
    IF elems = <<>> THEN out
    ELSE LET e == Head(elems) IN
         CleanElems(Tail(elems),
                    IF e = <<>> \/ e = <<".">> THEN out
                    ELSE IF e = <<".",".">>
                         THEN IF out # <<>> /\ out[Len(out)] # <<".",".">>
                              THEN SubSeq(out, 1, Len(out) - 1)
                              ELSE IF rooted THEN out ELSE Append(out, e)
                    ELSE Append(out, e),
                    rooted)

IsAbs(path) == HasPrefix(path, <<"/">>)

Clean(path) ==
    LET rooted == IsAbs(path)
        body == Join(CleanElems(Split(path, "/"), <<>>, rooted), <<"/">>)
        res == IF rooted THEN <<"/">> \o body ELSE body
    IN IF res = <<>> THEN <<".">> ELSE res

\* the same checks made on the cleaned path instead of the path as given
ValidateFilePathOnClean(path) ==
    IF path = <<>> THEN "cannot be empty"
    ELSE IF Len(path) > MaxPathLength THEN "exceeds maximum length"
    ELSE LET cleanPath == Clean(path) IN
         IF \E i \in DOMAIN pathTraversalPatterns : Contains(cleanPath, pathTraversalPatterns[i])
         THEN "contains potentially dangerous path traversal characters"
         ELSE IF IsAbs(cleanPath) /\ ~IsAbs(path)
         THEN "path normalization detected potential traversal attempt"
         ELSE nil

ValidateFilePath(path) ==
    IF path = <<>> THEN "cannot be empty"
    ELSE IF Len(path) > MaxPathLength THEN "exceeds maximum length"
    ELSE LET cleanPath == Clean(path) IN
         IF \E i \in DOMAIN pathTraversalPatterns : Contains(path, pathTraversalPatterns[i])
         THEN "contains potentially dangerous path traversal characters"
         ELSE IF IsAbs(cleanPath) /\ ~IsAbs(path)
         THEN "path normalization detected potential traversal attempt"
         ELSE nil

\* ValidatePort: the range check
ValidatePort(port) ==
    IF port < 0 \/ port > 65535 THEN "must be between 0 and 65535" ELSE nil

hostDangerousChars == <<"|", ";", "&", backtick, "$", "(", ")", "<", ">">>

\* ValidateHost: empty, longer than 255 bytes, or holding a shell metacharacter
ValidateHost(host) ==
    IF host = <<>> THEN "cannot be empty"
    ELSE IF Len(host) > 255 THEN "exceeds maximum length of 255 characters"
    ELSE IF \E i \in DOMAIN hostDangerousChars : Contains(host, <<hostDangerousChars[i]>>)
    THEN "contains potentially dangerous characters"
    ELSE nil

validDatabaseTypes == {<<"p","o","s","t","g","r","e","s">>, <<"m","y","s","q","l">>, <<"s","q","l","i","t","e">>}

\* ValidateDatabaseType: the lower-cased name is looked up in validTypes
ValidateDatabaseType(dbType) ==
    IF dbType = <<>> THEN "cannot be empty"
    ELSE IF ToLower(dbType) \notin validDatabaseTypes
    THEN "must be one of: postgres, mysql, sqlite"
    ELSE nil

validSourceTypes == {<<"f","i","l","e","s","y","s","t","e","m">>, <<"c","s","v">>, <<"t","s","v">>, <<"d","a","t","a","b","a","s","e">>}

\* ValidateSourceType: the lower-cased name is looked up in validTypes
ValidateSourceType(sourceType) ==
    IF sourceType = <<>> THEN "cannot be empty"
    ELSE IF ToLower(sourceType) \notin validSourceTypes
    THEN "must be one of: filesystem, csv, tsv, database"
    ELSE nil

MaxConfigNameLength == 255

\* ValidateFileExtension: empty passes; one leading dot is dropped; at most ten
\* characters, all letters or digits
ValidateFileExtension(ext) ==
    IF ext = <<>> THEN nil
    ELSE LET e == IF HasPrefix(ext, <<".">>) THEN Tail(ext) ELSE ext IN
         IF Len(e) > 10 THEN "extension too long (max 10 characters)"
         ELSE IF \E i \in DOMAIN e : ~(IsLetter(e[i]) \/ IsDigit(e[i]))
         THEN "extension must contain only alphanumeric characters"
         ELSE nil

\* ValidateConfigName: empty passes; length and character set otherwise
ValidateConfigName(name) ==
    IF name = <<>> THEN nil
    ELSE IF Len(name) > MaxConfigNameLength THEN "exceeds maximum length"
    ELSE IF \E i \in DOMAIN name :
               ~(IsLetter(name[i]) \/ IsDigit(name[i]) \/ name[i] \in {" ", "-", "_"})
    THEN "must contain only alphanumeric characters, spaces, dashes, and underscores"
    ELSE nil

validDelimiters == {<<",">>, <<"\t">>, <<";">>, <<"|">>}

ValidateCSVDelimiter(delimiter) ==
    IF delimiter = <<>> THEN "cannot be empty"
    ELSE IF delimiter \notin validDelimiters THEN "must be one of: comma, tab, semicolon, or pipe"
    ELSE nil

ValidateNonNegativeInt(value) ==
    IF value < 0 THEN "must be zero or a positive integer" ELSE nil

(***************************************************************************)
(* pkg/sources/database: Processor                                         *)
(***************************************************************************)
NoRet == [op |-> "none", err |-> nil, val |-> <<>>]

ZeroProcessor ==
    [DBType |-> <<>>, Host |-> <<>>, Port |-> 0, DBName |-> <<>>, User |-> <<>>,
     Password |-> <<>>, SSLMode |-> <<>>, TableName |-> <<>>, ColumnPath |-> <<>>,
     ColumnContent |-> <<>>, ColumnType |-> <<>>, ColumnSize |-> <<>>,
     CustomQuery |-> <<>>]

\* the state of a Processor no operation has touched, for the validator specifications
DBIdle ==
    /\ p = ZeroProcessor
    /\ db = 0
    /\ handles = <<>>
    /\ executed = <<>>
    /\ established = FALSE

postgres == <<"p","o","s","t","g","r","e","s">>
mysql == <<"m","y","s","q","l">>
sqlite == <<"s","q","l","i","t","e">>
localhost == <<"l","o","c","a","l","h","o","s","t">>

\* the query builder without the identifier checks
buildQueryUnchecked(q) ==
    IF q.CustomQuery # <<>> THEN [err |-> nil, query |-> q.CustomQuery]
    ELSE LET columns == <<q.ColumnPath, q.ColumnContent>>
                        \o (IF q.ColumnType # <<>> THEN <<q.ColumnType>> ELSE <<>>)
                        \o (IF q.ColumnSize # <<>> THEN <<q.ColumnSize>> ELSE <<>>)
         IN [err |-> nil,
             query |-> <<"S","E","L","E","C","T"," ">> \o Join(columns, <<",", " ">>)
                       \o <<" ","F","R","O","M"," ">> \o q.TableName]

\* the query builder appending the size column before the type column
buildQuerySizeFirst(q) ==
    IF q.CustomQuery # <<>> THEN [err |-> nil, query |-> q.CustomQuery]
    ELSE IF ValidateSQLIdentifier(q.TableName) # nil
    THEN [err |-> "invalid table name", query |-> <<>>]
    ELSE IF ValidateSQLIdentifier(q.ColumnPath) # nil
    THEN [err |-> "invalid path column", query |-> <<>>]
    ELSE IF ValidateSQLIdentifier(q.ColumnContent) # nil
    THEN [err |-> "invalid content column", query |-> <<>>]
    ELSE IF q.ColumnType # <<>> /\ ValidateSQLIdentifier(q.ColumnType) # nil
    THEN [err |-> "invalid type column", query |-> <<>>]
    ELSE IF q.ColumnSize # <<>> /\ ValidateSQLIdentifier(q.ColumnSize) # nil
    THEN [err |-> "invalid size column", query |-> <<>>]
    ELSE LET columns == <<q.ColumnPath, q.ColumnContent>>
                        \o (IF q.ColumnSize # <<>> THEN <<q.ColumnSize>> ELSE <<>>)
                        \o (IF q.ColumnType # <<>> THEN <<q.ColumnType>> ELSE <<>>)
         IN [err |-> nil,
             query |-> <<"S","E","L","E","C","T"," ">> \o Join(columns, <<",", " ">>)
                       \o <<" ","F","R","O","M"," ">> \o q.TableName]

buildQuery(q) ==
    IF q.CustomQuery # <<>> THEN [err |-> nil, query |-> q.CustomQuery]
    ELSE IF ValidateSQLIdentifier(q.TableName) # nil
    THEN [err |-> "invalid table name", query |-> <<>>]
    ELSE IF ValidateSQLIdentifier(q.ColumnPath) # nil
    THEN [err |-> "invalid path column", query |-> <<>>]
    ELSE IF ValidateSQLIdentifier(q.ColumnContent) # nil
    THEN [err |-> "invalid content column", query |-> <<>>]
    ELSE IF q.ColumnType # <<>> /\ ValidateSQLIdentifier(q.ColumnType) # nil
    THEN [err |-> "invalid type column", query |-> <<>>]
    ELSE IF q.ColumnSize # <<>> /\ ValidateSQLIdentifier(q.ColumnSize) # nil
    THEN [err |-> "invalid size column", query |-> <<>>]
    ELSE LET columns == <<q.ColumnPath, q.ColumnContent>>
                        \o (IF q.ColumnType # <<>> THEN <<q.ColumnType>> ELSE <<>>)
                        \o (IF q.ColumnSize # <<>> THEN <<q.ColumnSize>> ELSE <<>>)
         IN [err |-> nil,
             query |-> <<"S","E","L","E","C","T"," ">> \o Join(columns, <<",", " ">>)
                       \o <<" ","F","R","O","M"," ">> \o q.TableName]

\* Processor.Validate: the first failing check's error, or nil
Validate(q) ==
    IF ValidateDatabaseType(q.DBType) # nil THEN ValidateDatabaseType(q.DBType)
    ELSE IF q.DBType # sqlite /\ ValidateHost(q.Host) # nil THEN ValidateHost(q.Host)
    ELSE IF q.DBType # sqlite /\ ValidatePort(q.Port) # nil THEN ValidatePort(q.Port)
    ELSE IF q.DBType # sqlite /\ q.User = <<>> THEN "user is required"
    ELSE IF q.DBName = <<>> THEN "database name is required"
    ELSE IF q.CustomQuery # <<>> THEN ValidateCustomQuery(q.CustomQuery)
    ELSE IF ValidateSQLIdentifier(q.TableName) # nil THEN ValidateSQLIdentifier(q.TableName)
    ELSE IF ValidateSQLIdentifier(q.ColumnPath) # nil THEN ValidateSQLIdentifier(q.ColumnPath)
    ELSE IF ValidateSQLIdentifier(q.ColumnContent) # nil
    THEN ValidateSQLIdentifier(q.ColumnContent)
    ELSE IF q.ColumnType # <<>> /\ ValidateSQLIdentifier(q.ColumnType) # nil
    THEN ValidateSQLIdentifier(q.ColumnType)
    ELSE IF q.ColumnSize # <<>> /\ ValidateSQLIdentifier(q.ColumnSize) # nil
    THEN ValidateSQLIdentifier(q.ColumnSize)
    ELSE nil

\* Processor.SetDefaults: host, port, sslmode and the two required columns
SetDefaults(q) ==
    LET q1 == IF q.Host = <<>> /\ q.DBType # sqlite
              THEN [q EXCEPT !.Host = localhost] ELSE q
        q2 == IF q1.Port = 0 /\ q1.DBType = postgres THEN [q1 EXCEPT !.Port = 5432]
              ELSE IF q1.Port = 0 /\ q1.DBType = mysql THEN [q1 EXCEPT !.Port = 3306]
              ELSE q1
        q3 == IF q2.SSLMode = <<>> /\ q2.DBType = postgres
              THEN [q2 EXCEPT !.SSLMode = <<"d","i","s","a","b","l","e">>] ELSE q2
        q4 == IF q3.ColumnPath = <<>> /\ q3.CustomQuery = <<>>
              THEN [q3 EXCEPT !.ColumnPath = <<"f","i","l","e","_","p","a","t","h">>] ELSE q3
    IN IF q4.ColumnContent = <<>> /\ q4.CustomQuery = <<>>
       THEN [q4 EXCEPT !.ColumnContent = <<"c","o","n","t","e","n","t">>] ELSE q4

\* the driver Connect selects for a database type; "" when the switch falls to default
driverName(dbType) ==
    IF dbType = postgres THEN "postgres"
    ELSE IF dbType = mysql THEN "mysql"
    ELSE IF dbType = sqlite THEN "sqlite3"
    ELSE ""

\* what the database can answer to a query: rows in the order it returns them
rowA == [path |-> <<"a",".","g","o">>, content |-> <<"p","a","c","k","a","g","e"," ","m","a","i","n">>]
rowB == [path |-> <<"b",".","p","y">>, content |-> <<"i","m","p","o","r","t"," ","s","y","s">>]
ResultSets == {<<>>, <<rowA, rowB>>, <<rowB, rowA>>}

\* strconv for the %d verb
digitOf == <<"0","1","2","3","4","5","6","7","8","9">>

RECURSIVE Itoa(_)
Itoa(n) ==
    IF n < 0 THEN <<"-">> \o Itoa(0 - n)
    ELSE IF n < 10 THEN <<digitOf[n + 1]>>
    ELSE Itoa(n \div 10) \o <<digitOf[(n % 10) + 1]>>

\* fmt.Sprintf / fmt.Errorf for the verbs the program uses: each %s, %d, %w is
\* replaced by the next operand (already converted to text)
RECURSIVE Sprintf(_, _)
Sprintf(format, operands) ==
    IF format = <<>> THEN <<>>
    ELSE IF Len(format) >= 2 /\ format[1] = "%" /\ format[2] \in {"s", "d", "w"}
            /\ operands # <<>>
    THEN Head(operands) \o Sprintf(SubSeq(format, 3, Len(format)), Tail(operands))
    ELSE <<format[1]>> \o Sprintf(Tail(format), operands)

\* the connection string Connect hands to sql.Open
dsn(q) ==
    IF q.DBType = postgres
    THEN Sprintf(<<"h","o","s","t","=","%","s"," ","p","o","r","t","=","%","d"," ","u","s","e","r","=","%","s"," ","p","a","s","s","w","o","r","d","=","%","s"," ","d","b","n","a","m","e","=","%","s"," ","s","s","l","m","o","d","e","=","%","s">>,
                 <<q.Host, Itoa(q.Port), q.User, q.Password, q.DBName, q.SSLMode>>)
    ELSE IF q.DBType = mysql
    THEN Sprintf(<<"%","s",":","%","s","@","t","c","p","(","%","s",":","%","d",")","/","%","s">>,
                 <<q.User, q.Password, q.Host, Itoa(q.Port), q.DBName>>)
    ELSE IF q.DBType = sqlite THEN q.DBName
    ELSE <<>>

\* the three messages Connect can return
errUnsupportedType == Sprintf(<<"u","n","s","u","p","p","o","r","t","e","d"," ","d","a","t","a","b","a","s","e"," ","t","y","p","e">>, <<>>)
errOpenFailed == Sprintf(<<"f","a","i","l","e","d"," ","t","o"," ","e","s","t","a","b","l","i","s","h"," ","d","a","t","a","b","a","s","e"," ","c","o","n","n","e","c","t","i","o","n">>, <<>>)
errPingFailed == Sprintf(<<"d","a","t","a","b","a","s","e"," ","c","o","n","n","e","c","t","i","o","n"," ","t","e","s","t"," ","f","a","i","l","e","d">>, <<>>)

\* what a driver may say when sql.Open or Ping fails: it names the host it could
\* not resolve, or echoes the connection string it could not use
driverErrors(q) ==
    {<<"d","i","a","l"," ","t","c","p",":"," ","l","o","o","k","u","p"," ">> \o q.Host \o <<":"," ","n","o"," ","s","u","c","h"," ","h","o","s","t">>,
     <<"i","n","v","a","l","i","d"," ","c","o","n","n","e","c","t","i","o","n"," ","s","t","r","i","n","g",":"," ">> \o dsn(q)}

\* Connect formatting its errors with the database type and the wrapped driver error
ConnectWrapsDriverError ==
    IF driverName(p.DBType) = ""
    THEN /\ ret' = [op |-> "Connect", err |-> "unsupported database type",
                    val |-> Sprintf(<<"u","n","s","u","p","p","o","r","t","e","d"," ","d","a","t","a","b","a","s","e"," ","t","y","p","e",":"," ","%","s">>, <<p.DBType>>)]
         /\ UNCHANGED <<arg, dbVars>>
    ELSE \/ /\ \E e \in driverErrors(p) :
                  ret' = [op |-> "Connect", err |-> "failed to establish database connection",
                          val |-> Sprintf(<<"f","a","i","l","e","d"," ","t","o"," ","o","p","e","n"," ","d","a","t","a","b","a","s","e"," ","c","o","n","n","e","c","t","i","o","n",":"," ","%","w">>, <<e>>)]
            /\ UNCHANGED <<arg, dbVars>>
         \/ /\ Len(handles) < MaxHandles
            /\ handles' = Append(handles, "closed")
            /\ \E e \in driverErrors(p) :
                  ret' = [op |-> "Connect", err |-> "database connection test failed",
                          val |-> Sprintf(<<"f","a","i","l","e","d"," ","t","o"," ","p","i","n","g"," ","d","a","t","a","b","a","s","e",":"," ","%","w">>, <<e>>)]
            /\ UNCHANGED <<arg, p, db, executed, established>>
         \/ /\ Len(handles) < MaxHandles
            /\ handles' = Append(handles, "open")
            /\ db' = Len(handles) + 1
            /\ established' = TRUE
            /\ ret' = [op |-> "Connect", err |-> nil, val |-> <<>>]
            /\ UNCHANGED <<arg, p, executed>>

\* Connect storing the handle in p.db as soon as it is opened and returning on a
\* failed ping without tearing it down
ConnectStoresBeforePing ==
    IF driverName(p.DBType) = ""
    THEN /\ ret' = [op |-> "Connect", err |-> "unsupported database type", val |-> errUnsupportedType]
         /\ UNCHANGED <<arg, dbVars>>
    ELSE \/ /\ ret' = [op |-> "Connect", err |-> "failed to establish database connection", val |-> errOpenFailed]
            /\ UNCHANGED <<arg, dbVars>>
         \/ /\ Len(handles) < MaxHandles
            /\ handles' = Append(handles, "open")
            /\ db' = Len(handles) + 1
            /\ ret' = [op |-> "Connect", err |-> "database connection test failed", val |-> errPingFailed]
            /\ UNCHANGED <<arg, p, executed, established>>
         \/ /\ Len(handles) < MaxHandles
            /\ handles' = Append(handles, "open")
            /\ db' = Len(handles) + 1
            /\ established' = TRUE
            /\ ret' = [op |-> "Connect", err |-> nil, val |-> <<>>]
            /\ UNCHANGED <<arg, p, executed>>

\* Connect returning on a failed ping without closing the handle it opened
ConnectNoTeardown ==
    IF driverName(p.DBType) = ""
    THEN /\ ret' = [op |-> "Connect", err |-> "unsupported database type", val |-> errUnsupportedType]
         /\ UNCHANGED <<arg, dbVars>>
    ELSE \/ /\ ret' = [op |-> "Connect", err |-> "failed to establish database connection", val |-> errOpenFailed]
            /\ UNCHANGED <<arg, dbVars>>
         \/ /\ Len(handles) < MaxHandles
            /\ handles' = Append(handles, "open")
            /\ ret' = [op |-> "Connect", err |-> "database connection test failed", val |-> errPingFailed]
            /\ UNCHANGED <<arg, p, db, executed, established>>
         \/ /\ Len(handles) < MaxHandles
            /\ handles' = Append(handles, "open")
            /\ db' = Len(handles) + 1
            /\ established' = TRUE
            /\ ret' = [op |-> "Connect", err |-> nil, val |-> <<>>]
            /\ UNCHANGED <<arg, p, executed>>

\* Connect: the switch on DBType, sql.Open, Ping, and p.db = db on success.  The
\* outcome of sql.Open and of Ping is the environment's choice.
Connect ==
    IF driverName(p.DBType) = ""
    THEN /\ ret' = [op |-> "Connect", err |-> "unsupported database type", val |-> errUnsupportedType]
         /\ UNCHANGED <<arg, dbVars>>
    ELSE \/ \* sql.Open fails: no handle exists
            /\ ret' = [op |-> "Connect", err |-> "failed to establish database connection", val |-> errOpenFailed]
            /\ UNCHANGED <<arg, dbVars>>
         \/ \* Ping fails: db.Close() before the return
            /\ Len(handles) < MaxHandles
            /\ handles' = Append(handles, "closed")
            /\ ret' = [op |-> "Connect", err |-> "database connection test failed", val |-> errPingFailed]
            /\ UNCHANGED <<arg, p, db, executed, established>>
         \/ \* success: p.db = db
            /\ Len(handles) < MaxHandles
            /\ handles' = Append(handles, "open")
            /\ db' = Len(handles) + 1
            /\ established' = TRUE
            /\ ret' = [op |-> "Connect", err |-> nil, val |-> <<>>]
            /\ UNCHANGED <<arg, p, executed>>

\* Close without the assignment p.db = nil
CloseKeepsField ==
    IF db # 0
    THEN /\ \E e \in {nil, "close error"} :
              ret' = [op |-> "Close",
                      err |-> IF handles[db] = "closed" THEN nil ELSE e, val |-> <<>>]
         /\ handles' = [handles EXCEPT ![db] = "closed"]
         /\ established' = FALSE
         /\ UNCHANGED <<arg, p, db, executed>>
    ELSE /\ ret' = [op |-> "Close", err |-> nil, val |-> <<>>]
         /\ established' = FALSE
         /\ UNCHANGED <<arg, p, db, handles, executed>>

\* Close: p.db.Close() and p.db = nil when a handle is stored; the handle's own
\* Close may report an error.
Close ==
    IF db # 0
    THEN /\ \E e \in {nil, "close error"} :
              ret' = [op |-> "Close", err |-> e, val |-> <<>>]
         /\ handles' = [handles EXCEPT ![db] = "closed"]
         /\ db' = 0
         /\ established' = FALSE
         /\ UNCHANGED <<arg, p, executed>>
    ELSE /\ ret' = [op |-> "Close", err |-> nil, val |-> <<>>]
         /\ established' = FALSE
         /\ UNCHANGED <<arg, p, db, handles, executed>>

\* for rows.Next(): one rows.Scan and one append per row
RECURSIVE scanRows(_)
scanRows(rows) ==
    IF rows = <<>> THEN <<>>
    ELSE <<[Path |-> rows[1].path, Content |-> rows[1].content]>> \o scanRows(Tail(rows))

\* Process: the nil check, buildQuery, db.Query, and the scan loop that appends
\* one FileResult per row; any scan or iteration error discards the results.
\* A successful call returns, next to the results, the rows the database sent.
Process ==
    IF db = 0
    THEN /\ ret' = [op |-> "Process", err |-> "database connection not established", val |-> <<>>]
         /\ UNCHANGED <<arg, dbVars>>
    ELSE LET b == buildQuery(p) IN
         IF b.err # nil
         THEN /\ ret' = [op |-> "Process", err |-> "failed to build query", val |-> <<>>]
              /\ UNCHANGED <<arg, dbVars>>
         ELSE IF handles[db] # "open"
         THEN \* database/sql refuses a query on a closed handle
              /\ ret' = [op |-> "Process", err |-> "query execution failed", val |-> <<>>]
              /\ UNCHANGED <<arg, dbVars>>
         ELSE /\ Len(executed) < MaxExecuted
              /\ executed' = Append(executed, b.query)
              /\ \/ \E e \in {"query execution failed", "failed to read database row",
                              "error reading database results"} :
                       ret' = [op |-> "Process", err |-> e, val |-> <<>>]
                 \/ \E rows \in ResultSets :
                       ret' = [op |-> "Process", err |-> nil,
                               val |-> [results |-> scanRows(rows), rows |-> rows]]
              /\ UNCHANGED <<arg, p, db, handles, established>>

(***************************************************************************)
(* SpecIdent: ValidateSQLIdentifier applied to one untrusted string        *)
(***************************************************************************)
IdentTokens == {
    <<"a">>, <<"B">>, <<"7">>, <<"_">>, <<" ">>, <<";">>, <<"'">>, <<"-","-">>,
    <<"x","p","_">>, <<"S","p","_">>, <<"e","x","e","c">>,
    <<"U","n","i","o","n">>, <<"D","R","O","P"," ">> }

IdentExamples == {
    <<"u","s","e","r","s">>,
    <<"u","s","e","r","_","a","c","c","o","u","n","t","s">>,
    <<"t","a","b","l","e","1","2","3">>,
    <<"1","2","3","t","a","b","l","e">>,
    <<"u","s","e","r","-","t","a","b","l","e">>,
    <<"u","s","e","r","s",";"," ","D","R","O","P"," ","T","A","B","L","E">>,
    <<"x","p","_","c","m","d","s","h","e","l","l">>,
    <<"u","s","e","r","s","/","*","*","/","O","R","/","*","*","/","1","=","1">>,
    <<"u","s","e","r","s","\"">> }

IdentLong ==
    {pre \o Repeat("a", n) : pre \in {<<>>, <<"_">>},
                             n \in (MaxTableNameLength - 1)..(MaxTableNameLength + 1)}

IdentInputs ==
    {Flatten(ts) : ts \in SeqsUpTo(IdentTokens, MaxTokens)} \cup IdentExamples \cup IdentLong

InitIdent ==
    /\ arg \in IdentInputs
    /\ ret = NoRet
    /\ DBIdle

CallValidateSQLIdentifier ==
    /\ ret.op = "none"
    /\ ret' = [op |-> "ValidateSQLIdentifier", err |-> ValidateSQLIdentifier(arg), val |-> <<>>]
    /\ UNCHANGED <<arg, dbVars>>

NextIdent == CallValidateSQLIdentifier

SpecIdent == InitIdent /\ [][NextIdent]_vars

\* The denylist as the specification states it: every entry in upper case.
DenylistUpper == {ToUpper(sqlInjectionPatterns[i]) : i \in DOMAIN sqlInjectionPatterns}

\* C1: ValidateSQLIdentifier(s) succeeds if and only if s is non-empty, at most
\* 128 bytes long, matches ^[A-Za-z][A-Za-z0-9_]*$ and its uppercased form
\* contains none of the denylisted substrings, XP_ and SP_ among them.
C1_IdentAcceptedIffClean ==
    ret.op = "ValidateSQLIdentifier" =>
        ((ret.err = nil) <=>
            /\ arg # <<>>
            /\ Len(arg) <= MaxTableNameLength
            /\ sqlIdentifierPattern(arg)
            /\ \A pat \in DenylistUpper : ~Contains(ToUpper(arg), pat))

(***************************************************************************)
(* SpecQuery: ValidateCustomQuery applied to one untrusted string          *)
(***************************************************************************)
QExample == <<"S","E","L","E","C","T"," ","f","i","l","e","_","p","a","t","h",","," ","c","o","n","t","e","n","t"," ","F","R","O","M"," ","c","o","d","e","_","f","i","l","e","s">>
QDropAfter == <<"S","E","L","E","C","T"," ","*"," ","F","R","O","M"," ","c","o","d","e","_","f","i","l","e","s",";"," ","D","R","O","P"," ","T","A","B","L","E"," ","c","o","d","e","_","f","i","l","e","s">>
QDelete == <<"D","E","L","E","T","E"," ","F","R","O","M"," ","c","o","d","e","_","f","i","l","e","s">>
QUnion == <<"S","E","L","E","C","T"," ","*"," ","F","R","O","M"," ","c","o","d","e","_","f","i","l","e","s"," ","U","N","I","O","N"," ","S","E","L","E","C","T"," ","*"," ","F","R","O","M"," ","u","s","e","r","s">>
QTautology == <<"S","E","L","E","C","T"," ","*"," ","F","R","O","M"," ","c","o","d","e","_","f","i","l","e","s"," ","W","H","E","R","E"," ","i","d"," ","="," ","1"," ","O","R"," ","1","=","1">>
QSleep == <<"S","E","L","E","C","T"," ","p","g","_","s","l","e","e","p","(","1","0",")">>

\* the queries of TestMalformedDatabaseQueries that the model draws
maliciousQueries == {QDropAfter, QDelete, QUnion, QTautology, QSleep}

QueryTokens == {
    <<"S","E","L","E","C","T">>, <<"s","e","l","e","c","t">>, <<" ">>,
    <<"t">>, <<";">>, <<"d","r","o","p">>, <<"D","e","l","e","t","e">>,
    <<"U","P","D","A","T","E">>, <<"a","l","t","e","r">>,
    <<"C","R","E","A","T","E">>, <<"e","x","e","c">>, <<"x","p","_">>,
    <<"I","n","t","o"," ","D","u","m","p","f","i","l","e">>,
    <<"i","n","t","o"," ","o","u","t","f","i","l","e">>,
    <<"l","o","a","d","_","f","i","l","e">>, <<"u","n","i","o","n">> }

QueryLong ==
    {<<"S","E","L","E","C","T"," ">> \o Repeat("a", n) :
        n \in (MaxQueryLength - 8)..(MaxQueryLength - 6)}

QueryExamples == {
    QExample,
    <<"\t","s","e","l","e","c","t"," ","t","\n">>,
    <<"\t","i","n","s","e","r","t"," ","t">>,
    <<"S","e","l","e","c","t"," ","I","n","s","e","r","t">> }

QueryInputs ==
    {Flatten(ts) : ts \in SeqsUpTo(QueryTokens, MaxTokens)}
        \cup maliciousQueries \cup QueryExamples \cup QueryLong

InitQuery ==
    /\ arg \in QueryInputs
    /\ ret = NoRet
    /\ DBIdle

CallValidateCustomQuery ==
    /\ ret.op = "none"
    /\ ret' = [op |-> "ValidateCustomQuery", err |-> ValidateCustomQuery(arg), val |-> <<>>]
    /\ UNCHANGED <<arg, dbVars>>

NextQuery == CallValidateCustomQuery

SpecQuery == InitQuery /\ [][NextQuery]_vars

\* the keywords the specification lists for ValidateCustomQuery
ForbiddenKeywords == {
    <<"D","R","O","P">>, <<"D","E","L","E","T","E">>, <<"U","P","D","A","T","E">>,
    <<"I","N","S","E","R","T">>, <<"A","L","T","E","R">>, <<"C","R","E","A","T","E">>,
    <<"E","X","E","C">>, <<"E","X","E","C","U","T","E">>,
    <<"I","N","T","O"," ","O","U","T","F","I","L","E">>,
    <<"I","N","T","O"," ","D","U","M","P","F","I","L","E">>,
    <<"L","O","A","D","_","F","I","L","E">> }

C5_MaliciousQueriesRejected ==
    (ret.op = "ValidateCustomQuery" /\ arg \in maliciousQueries) => ret.err # nil

(***************************************************************************)
(* SpecPath: ValidateFilePath applied to one untrusted string              *)
(***************************************************************************)
PRel == <<"d","i","r","/","f","i","l","e",".","t","x","t">>
PAbs == <<"/","h","o","m","e","/","u","s","e","r","/","f","i","l","e",".","t","x","t">>
PEtc == <<"/","e","t","c","/","p","a","s","s","w","d">>
PUp == <<".",".","/",".",".","/",".",".","/","e","t","c","/","p","a","s","s","w","d">>
PSemi == <<"f","i","l","e",".","t","x","t",";","r","m"," ","-","r","f"," ","/">>
PHome == <<"~","/",".",".","/",".",".","/","e","t","c","/","p","a","s","s","w","d">>
PDots == <<".",".",".",".","/","/",".",".",".",".","/","/",".",".",".",".","/","/","e","t","c","/","p","a","s","s","w","d">>

\* the paths of TestPathTraversalAttempts that the model draws
pathTraversalAttempts == {PUp, PDots, PEtc, PSemi, PHome}

PathTokens == {
    <<"a">>, <<".">>, <<"/">>, <<" ">>, <<"~">>, <<"$">>, <<"|">>, <<";">>, <<"&">>,
    <<backtick>>, <<"<">>, <<">">>, <<"b",".","g","o">> }

PathLong ==
    {pre \o Repeat("a", n) : pre \in {<<>>, <<"/">>},
                             n \in (MaxPathLength - 1)..(MaxPathLength + 1)}

PathInputs ==
    {Flatten(ts) : ts \in SeqsUpTo(PathTokens, MaxTokens)}
        \cup pathTraversalAttempts \cup {PRel, PAbs} \cup PathLong

InitPath ==
    /\ arg \in PathInputs
    /\ ret = NoRet
    /\ DBIdle

CallValidateFilePath ==
    /\ ret.op = "none"
    /\ ret' = [op |-> "ValidateFilePath", err |-> ValidateFilePath(arg), val |-> Clean(arg)]
    /\ UNCHANGED <<arg, dbVars>>

NextPath == CallValidateFilePath

SpecPath == InitPath /\ [][NextPath]_vars

\* the characters and fragments the specification lists for ValidateFilePath
ForbiddenPathParts == {<<".",".">>, <<"~">>, <<"$">>, <<"|">>, <<";">>, <<"&">>,
                       <<backtick>>, <<"<">>, <<">">>}

C7_TraversalAttemptsRejected ==
    (ret.op = "ValidateFilePath" /\ arg \in pathTraversalAttempts) => ret.err # nil

(***************************************************************************)
(* SpecBuild: buildQuery on a Processor whose fields a caller has set      *)
(***************************************************************************)
IdFiles == <<"c","o","d","e","_","f","i","l","e","s">>
IdPath == <<"f","i","l","e","_","p","a","t","h">>
IdContent == <<"c","o","n","t","e","n","t">>
IdType == <<"f","i","l","e","_","t","y","p","e">>
IdSize == <<"f","i","l","e","_","s","i","z","e">>
IdInjected == <<"c","o","d","e","_","f","i","l","e","s",";"," ","D","R","O","P"," ","T","A","B","L","E"," ","u","s","e","r","s">>
IdDigitFirst == <<"1","a">>
QCustom == <<"S","E","L","E","C","T"," ","*"," ","F","R","O","M"," ","f","i","l","e","s"," ","W","H","E","R","E"," ","t","y","p","e"," ","="," ","'","g","o","'">>

BuildConfigs ==
    {[ZeroProcessor EXCEPT !.TableName = t, !.ColumnPath = cp, !.ColumnContent = cc,
                           !.ColumnType = ct, !.ColumnSize = cs, !.CustomQuery = cq] :
        t \in {<<>>, IdFiles, IdInjected, IdDigitFirst},
        cp \in {<<>>, IdPath, IdInjected},
        cc \in {IdContent, IdDigitFirst},
        ct \in {<<>>, IdType, IdSize, IdInjected},
        cs \in {<<>>, IdSize, IdType, IdDigitFirst},
        cq \in {<<>>, QCustom, QUnion}}

InitBuild ==
    /\ arg = <<>>
    /\ ret = NoRet
    /\ p \in BuildConfigs
    /\ db = 0
    /\ handles = <<>>
    /\ executed = <<>>
    /\ established = FALSE

CallBuildQuery ==
    /\ ret.op = "none"
    /\ LET b == buildQuery(p) IN
       ret' = [op |-> "buildQuery", err |-> b.err, val |-> b.query]
    /\ UNCHANGED <<arg, dbVars>>

NextBuild == CallBuildQuery

SpecBuild == InitBuild /\ [][NextBuild]_vars

\* the identifiers buildQuery interpolates: the table, the two required columns
\* and each optional column that is set
InterpolatedIdentifiers(q) ==
    {q.TableName, q.ColumnPath, q.ColumnContent}
        \cup (IF q.ColumnType # <<>> THEN {q.ColumnType} ELSE {})
        \cup (IF q.ColumnSize # <<>> THEN {q.ColumnSize} ELSE {})

AllIdentifiersValid(q) ==
    \A id \in InterpolatedIdentifiers(q) : ValidateSQLIdentifier(id) = nil

\* C2: with an empty CustomQuery, buildQuery returns a query only if the table,
\* the path and content columns and every non-empty optional column pass
\* ValidateSQLIdentifier; if one fails it returns an error and no query; a built
\* query holds only letters, digits, underscores, spaces and commas.
C2_BuiltOnlyFromValidIdentifiers ==
    (ret.op = "buildQuery" /\ p.CustomQuery = <<>>) =>
        /\ ret.err = nil => AllIdentifiersValid(p)
        /\ ~AllIdentifiersValid(p) => (ret.err # nil /\ ret.val = <<>>)
        /\ \A i \in DOMAIN ret.val :
              IsLetter(ret.val[i]) \/ IsDigit(ret.val[i]) \/ ret.val[i] \in {"_", " ", ","}

\* the injected table name of the specification's example is refused
C2_Witness ==
    /\ ret.op = "buildQuery"
    /\ p.CustomQuery = <<>>
    /\ p.TableName = IdInjected
    /\ p.ColumnPath = IdPath
    /\ ret.err = "invalid table name"
    /\ ret.val = <<>>

\* C3: for valid identifiers and an empty CustomQuery, buildQuery returns exactly
\* 'SELECT <path>, <content>[, <type>][, <size>] FROM <table>', an optional column
\* present iff its name is non-empty, type before size; with a non-empty
\* CustomQuery it returns the custom query unchanged.
C3_ExactQueryText ==
    ret.op = "buildQuery" =>
        /\ (p.CustomQuery = <<>> /\ AllIdentifiersValid(p)) =>
              /\ ret.err = nil
              /\ ret.val = <<"S","E","L","E","C","T"," ">> \o p.ColumnPath
                           \o <<",", " ">> \o p.ColumnContent
                           \o (IF p.ColumnType # <<>> THEN <<",", " ">> \o p.ColumnType ELSE <<>>)
                           \o (IF p.ColumnSize # <<>> THEN <<",", " ">> \o p.ColumnSize ELSE <<>>)
                           \o <<" ","F","R","O","M"," ">> \o p.TableName
        /\ p.CustomQuery # <<>> => (ret.err = nil /\ ret.val = p.CustomQuery)

\* both optional columns set: the type column comes before the size column
C3_Witness ==
    /\ ret.op = "buildQuery"
    /\ p.CustomQuery = <<>>
    /\ p.ColumnType = IdType
    /\ p.ColumnSize = IdSize
    /\ ret.err = nil
    /\ ret.val = <<"S","E","L","E","C","T"," ","f","i","l","e","_","p","a","t","h",","," ","c","o","n","t","e","n","t",","," ","f","i","l","e","_","t","y","p","e",","," ","f","i","l","e","_","s","i","z","e"," ","F","R","O","M"," ","c","o","d","e","_","f","i","l","e","s">>

(***************************************************************************)
(* Spec: any sequence of Connect, Process and Close on one Processor       *)
(***************************************************************************)
oracle == <<"o","r","a","c","l","e">>

testpass == <<"t","e","s","t","p","a","s","s">>

\* two ways to reach a server: the defaults of a local one without a password,
\* and the host, port, password and sslmode of the error-message test
ConnSettings ==
    {[Host |-> localhost, Port |-> 0, Password |-> <<>>, SSLMode |-> <<>>],
     [Host |-> <<"n","o","n","e","x","i","s","t","e","n","t",".","h","o","s","t">>, Port |-> 5432,
      Password |-> testpass, SSLMode |-> <<"d","i","s","a","b","l","e">>]}

DBConfigs ==
    {[ZeroProcessor EXCEPT !.DBType = t,
                           !.Host = c.Host, !.Port = c.Port,
                           !.Password = c.Password, !.SSLMode = c.SSLMode,
                           !.DBName = <<"t","e","s","t",".","d","b">>,
                           !.User = <<"u","s","e","r">>,
                           !.TableName = tn, !.ColumnPath = IdPath,
                           !.ColumnContent = IdContent, !.ColumnType = ct,
                           !.CustomQuery = cq] :
        t \in {postgres, mysql, sqlite, oracle},
        c \in ConnSettings,
        tn \in {IdFiles, IdInjected},
        ct \in {<<>>, IdType},
        cq \in {<<>>, QCustom, QDelete}}

Init ==
    /\ arg = <<>>
    /\ ret = NoRet
    /\ p \in DBConfigs
    /\ db = 0
    /\ handles = <<>>
    /\ executed = <<>>
    /\ established = FALSE

Next == Connect \/ Process \/ Close

Spec == Init /\ [][Next]_vars

\* C8: Process executes a query only if some Connect succeeded and no Close has
\* been called since; on a never-connected Processor or after Close, Process
\* returns an error and executes nothing.
C8_ProcessOnlyWhenConnected ==
    [][/\ executed' # executed => (established /\ ret'.op = "Process")
       /\ (ret'.op = "Process" /\ ~established) => (ret'.err # nil /\ executed' = executed)]_vars

\* a query was executed while connected, and after Close a Process was refused
C8_Witness ==
    /\ ret.op = "Process"
    /\ ret.err = "database connection not established"
    /\ ~established
    /\ Len(executed) = 1
    /\ handles = <<"closed">>

\* C9: Close on a never-connected Processor, or again after a Close, returns no
\* error and leaves the Processor without a connection; only the first Close
\* after a successful Connect closes the underlying handle.
C9_CloseIdempotent ==
    [][ret'.op = "Close" =>
          /\ db' = 0
          /\ db = 0 => (ret'.err = nil /\ handles' = handles)
          /\ db # 0 => (handles[db] = "open" /\ handles' = [handles EXCEPT ![db] = "closed"])]_vars

\* Close has returned on a Processor that never opened a handle
C9_Witness ==
    /\ ret.op = "Close"
    /\ ret.err = nil
    /\ handles = <<>>
    /\ db = 0

\* C10: if Connect fails, any handle it opened has been closed before it returns
\* and p.db is what it was before the call; a previously unconnected Processor
\* stays unconnected and its next Process call fails.
C10_FailedConnectTearsDown ==
    [][/\ (ret'.op = "Connect" /\ ret'.err # nil) =>
             /\ db' = db
             /\ Len(handles') >= Len(handles)
             /\ \A i \in DOMAIN handles' :
                   IF i \in DOMAIN handles THEN handles'[i] = handles[i]
                                           ELSE handles'[i] = "closed"
       /\ (ret.op = "Connect" /\ ret.err # nil /\ ~established /\ ret'.op = "Process") =>
             (ret'.err # nil /\ executed' = executed)]_vars

\* a ping failed: the handle Connect opened is closed and p.db is still nil
C10_Witness ==
    /\ ret.op = "Connect"
    /\ ret.err = "database connection test failed"
    /\ handles = <<"closed">>
    /\ db = 0

\* C11: the text of the error a failed Connect returns is fixed by the step that
\* failed (unsupported type, sql.Open, Ping) and by nothing else in the
\* configuration, and it contains neither the password nor the connection string.
C11_GenericConnectErrors ==
    [][(ret'.op = "Connect" /\ ret'.err # nil) =>
          /\ ret'.val = (IF driverName(p.DBType) = "" THEN errUnsupportedType
                         ELSE IF handles' = handles THEN errOpenFailed
                         ELSE errPingFailed)
          /\ p.Password # <<>> => ~Contains(ret'.val, p.Password)
          /\ dsn(p) # <<>> => ~Contains(ret'.val, dsn(p))]_vars

\* a ping failed on a postgres configuration that carries a password
C11_Witness ==
    /\ ret.op = "Connect"
    /\ ret.val = errPingFailed
    /\ p.DBType = postgres
    /\ p.Password = testpass
    /\ Contains(dsn(p), testpass)

(***************************************************************************)
(* SpecDispatch: one run of Server.processDatabase, or one call of         *)
(* Processor.TestConnection, on a Processor built from the configuration.  *)
(* arg names the entry point; ret.op is the call that returned last.       *)
(***************************************************************************)
DispatchConfigs ==
    {[ZeroProcessor EXCEPT !.DBType = t, !.Host = h, !.User = u,
                           !.DBName = <<"t","e","s","t",".","d","b">>,
                           !.TableName = tn, !.CustomQuery = cq] :
        t \in {postgres, sqlite, oracle, ToUpper(postgres), ToUpper(sqlite)},
        h \in {<<>>, <<"d","b",";","r","m">>},
        u \in {<<>>, <<"u","s","e","r">>},
        tn \in {IdFiles, IdInjected},
        cq \in {<<>>, QExample}}

InitDispatch ==
    /\ arg \in {"processDatabase", "TestConnection"}
    /\ ret = NoRet
    /\ p \in DispatchConfigs
    /\ db = 0
    /\ handles = <<>>
    /\ executed = <<>>
    /\ established = FALSE

\* dbProc.SetDefaults()
RunSetDefaults ==
    /\ arg = "processDatabase"
    /\ ret.op = "none"
    /\ p' = SetDefaults(p)
    /\ ret' = [op |-> "SetDefaults", err |-> nil, val |-> <<>>]
    /\ UNCHANGED <<arg, db, handles, executed, established>>

\* if err := dbProc.Validate(); err != nil { return nil, err }
RunValidate ==
    /\ arg = "processDatabase"
    /\ ret.op = "SetDefaults"
    /\ ret' = [op |-> IF Validate(p) = nil THEN "Validate" ELSE "processDatabase",
               err |-> Validate(p), val |-> <<>>]
    /\ UNCHANGED <<arg, dbVars>>

\* if err := dbProc.Connect(); err != nil { return nil, err }, and the Connect
\* that TestConnection starts with
RunConnect ==
    /\ \/ arg = "processDatabase" /\ ret.op = "Validate"
       \/ arg = "TestConnection" /\ ret.op = "none"
    /\ Connect

\* the error return after a failed Connect, in either entry point
ReturnConnectError ==
    /\ ret.op = "Connect"
    /\ ret.err # nil
    /\ ret' = [ret EXCEPT !.op = arg]
    /\ UNCHANGED <<arg, dbVars>>

\* return dbProc.Process(): the call itself
RunProcess ==
    /\ arg = "processDatabase"
    /\ ret.op = "Connect"
    /\ ret.err = nil
    /\ Process

\* a return from processDatabase that runs no deferred call
ReturnWithoutClose ==
    /\ arg = "processDatabase"
    /\ ret.op = "Process"
    /\ ret' = [ret EXCEPT !.op = "processDatabase"]
    /\ UNCHANGED <<arg, dbVars>>

\* defer dbProc.Close(): runs when processDatabase returns what Process
\* returned; the error of Close is dropped
DeferredClose ==
    /\ arg = "processDatabase"
    /\ ret.op = "Process"
    /\ IF db # 0
       THEN /\ handles' = [handles EXCEPT ![db] = "closed"]
            /\ db' = 0
       ELSE UNCHANGED <<db, handles>>
    /\ established' = FALSE
    /\ ret' = [ret EXCEPT !.op = "processDatabase"]
    /\ UNCHANGED <<arg, p, executed>>

\* return p.Close() in TestConnection
RunTestClose ==
    /\ arg = "TestConnection"
    /\ ret.op = "Connect"
    /\ ret.err = nil
    /\ Close

ReturnTestClose ==
    /\ arg = "TestConnection"
    /\ ret.op = "Close"
    /\ ret' = [ret EXCEPT !.op = "TestConnection"]
    /\ UNCHANGED <<arg, dbVars>>

NextDispatch ==
    \/ RunSetDefaults
    \/ RunValidate
    \/ RunConnect
    \/ ReturnConnectError
    \/ RunProcess
    \/ DeferredClose
    \/ RunTestClose
    \/ ReturnTestClose

SpecDispatch == InitDispatch /\ [][NextDispatch]_vars

\* C12: when processDatabase or TestConnection has returned, with records or
\* with any error, every connection the run opened is closed and the Processor
\* holds none.
C12_NoConnectionLeftOpen ==
    ret.op \in {"processDatabase", "TestConnection"} =>
        /\ db = 0
        /\ \A i \in DOMAIN handles : handles[i] = "closed"

\* processDatabase has returned rows and the one connection it opened is closed
C12_Witness ==
    /\ ret.op = "processDatabase"
    /\ ret.err = nil
    /\ ret.val.results # <<>>
    /\ handles = <<"closed">>
    /\ Len(executed) = 1

(***************************************************************************)
(* pkg/configfile: AppConfig.Validate                                      *)
(***************************************************************************)
filesystem == <<"f","i","l","e","s","y","s","t","e","m">>
csv == <<"c","s","v">>
tsv == <<"t","s","v">>
database == <<"d","a","t","a","b","a","s","e">>

ZeroAppConfig ==
    [SourceType |-> <<>>, Name |-> <<>>, Directories |-> <<>>, Recursive |-> FALSE,
     IgnoreFiles |-> <<>>, IgnoreDirs |-> <<>>,
     IncludeExtensions |-> <<>>, ExcludeExtensions |-> <<>>,
     CSVFilePath |-> <<>>, CSVDelimiter |-> <<>>, CSVPathColumn |-> 0,
     CSVContentColumn |-> 0, CSVHasHeader |-> FALSE,
     DBType |-> <<>>, DBHost |-> <<>>, DBPort |-> 0,
     DBName |-> <<>>, DBUser |-> <<>>, DBPassword |-> <<>>, DBSSLMode |-> <<>>,
     DBTableName |-> <<>>, DBColumnPath |-> <<>>, DBColumnContent |-> <<>>,
     DBColumnType |-> <<>>, DBColumnSize |-> <<>>, DBQuery |-> <<>>,
     OutputFile |-> <<>>]

\* the filesystem case of the switch
validateFilesystemCase(c) ==
    IF Len(c.Directories) = 0 THEN "directories are required for filesystem source"
    ELSE IF \E i \in DOMAIN c.Directories : ValidateFilePath(c.Directories[i]) # nil
    THEN "invalid directory path"
    ELSE IF \E i \in DOMAIN c.IncludeExtensions :
               ValidateFileExtension(c.IncludeExtensions[i]) # nil
    THEN "invalid include extension"
    ELSE IF \E i \in DOMAIN c.ExcludeExtensions :
               ValidateFileExtension(c.ExcludeExtensions[i]) # nil
    THEN "invalid exclude extension"
    ELSE nil

\* the delimiter the csv/tsv case leaves in the configuration
defaultedDelimiter(c) ==
    IF c.SourceType = csv /\ c.CSVDelimiter = <<>> THEN <<",">>
    ELSE IF c.SourceType = tsv /\ c.CSVDelimiter = <<>> THEN <<"\t">>
    ELSE c.CSVDelimiter

\* the csv/tsv case of the switch
validateCSVCase(c) ==
    IF c.CSVFilePath = <<>> THEN "csv_file_path is required for CSV/TSV source"
    ELSE IF ValidateFilePath(c.CSVFilePath) # nil THEN "invalid CSV file path"
    ELSE IF ValidateCSVDelimiter(defaultedDelimiter(c)) # nil
    THEN ValidateCSVDelimiter(defaultedDelimiter(c))
    ELSE IF ValidateNonNegativeInt(c.CSVPathColumn) # nil
    THEN ValidateNonNegativeInt(c.CSVPathColumn)
    ELSE ValidateNonNegativeInt(c.CSVContentColumn)

\* the database case of the switch
validateDatabaseCase(c) ==
    IF ValidateDatabaseType(c.DBType) # nil THEN ValidateDatabaseType(c.DBType)
    ELSE IF c.DBType # sqlite /\ ValidateHost(c.DBHost) # nil THEN ValidateHost(c.DBHost)
    ELSE IF c.DBType # sqlite /\ ValidatePort(c.DBPort) # nil THEN ValidatePort(c.DBPort)
    ELSE IF c.DBQuery # <<>> THEN ValidateCustomQuery(c.DBQuery)
    ELSE IF c.DBTableName = <<>>
    THEN "db_table_name is required when db_query is not provided"
    ELSE IF ValidateSQLIdentifier(c.DBTableName) # nil
    THEN ValidateSQLIdentifier(c.DBTableName)
    ELSE IF ValidateSQLIdentifier(c.DBColumnPath) # nil
    THEN ValidateSQLIdentifier(c.DBColumnPath)
    ELSE IF ValidateSQLIdentifier(c.DBColumnContent) # nil
    THEN ValidateSQLIdentifier(c.DBColumnContent)
    ELSE IF c.DBColumnType # <<>> /\ ValidateSQLIdentifier(c.DBColumnType) # nil
    THEN ValidateSQLIdentifier(c.DBColumnType)
    ELSE IF c.DBColumnSize # <<>> /\ ValidateSQLIdentifier(c.DBColumnSize) # nil
    THEN ValidateSQLIdentifier(c.DBColumnSize)
    ELSE nil

\* AppConfig.Validate: source type, name, the switch on the source type as
\* written in the configuration, then the output file.  The csv/tsv case stores
\* the default delimiter once the file path has passed.
AppConfigValidate(c) ==
    LET caseErr == IF c.SourceType = filesystem THEN validateFilesystemCase(c)
                   ELSE IF c.SourceType \in {csv, tsv} THEN validateCSVCase(c)
                   ELSE IF c.SourceType = database THEN validateDatabaseCase(c)
                   ELSE nil
        after == IF c.SourceType \in {csv, tsv} /\ c.CSVFilePath # <<>>
                    /\ ValidateFilePath(c.CSVFilePath) = nil
                 THEN [c EXCEPT !.CSVDelimiter = defaultedDelimiter(c)]
                 ELSE c
    IN IF ValidateSourceType(c.SourceType) # nil
       THEN [err |-> ValidateSourceType(c.SourceType), config |-> c]
       ELSE IF ValidateConfigName(c.Name) # nil
       THEN [err |-> ValidateConfigName(c.Name), config |-> c]
       ELSE IF caseErr # nil THEN [err |-> caseErr, config |-> after]
       ELSE IF c.OutputFile # <<>> /\ ValidateFilePath(c.OutputFile) # nil
       THEN [err |-> "invalid output file path", config |-> after]
       ELSE [err |-> nil, config |-> after]

(***************************************************************************)
(* SpecConfig: AppConfig.Validate applied to one loaded configuration      *)
(***************************************************************************)
AppConfigs ==
    {[ZeroAppConfig EXCEPT !.SourceType = st, !.Name = n, !.Directories = d,
                           !.CSVFilePath = cp, !.DBType = dt, !.DBHost = h,
                           !.DBTableName = tn, !.DBColumnPath = tn,
                           !.DBColumnContent = tn, !.DBQuery = dq] :
        st \in {<<>>, filesystem, csv, tsv, database, <<"C","S","V">>,
                <<"F","i","l","e","s","y","s","t","e","m">>, <<"D","A","T","A","B","A","S","E">>, <<"i","n","v","a","l","i","d">>},
        n \in {<<>>, <<"a","/","b">>},
        d \in {<<>>, <<<<"/","t","m","p">>>>},
        cp \in {<<>>, <<"/","t","m","p","/","d","a","t","a",".","c","s","v">>},
        dt \in {<<>>, postgres, sqlite},
        h \in {<<>>, localhost},
        tn \in {<<>>, <<"f","i","l","e","s">>},
        dq \in {<<>>, <<"S","E","L","E","C","T"," ","*"," ","F","R","O","M"," ","f","i","l","e","s">>}}

InitConfig ==
    /\ arg \in AppConfigs
    /\ ret = NoRet
    /\ DBIdle

CallAppConfigValidate ==
    /\ ret.op = "none"
    /\ ret' = [op |-> "AppConfig.Validate", err |-> AppConfigValidate(arg).err,
               val |-> AppConfigValidate(arg).config]
    /\ UNCHANGED <<arg, dbVars>>

NextConfig == CallAppConfigValidate

SpecConfig == InitConfig /\ [][NextConfig]_vars

\* the variant a source type names, as ValidateSourceType reads it
variantOf(c) == ToLower(c.SourceType)

\* the configuration lacks a field its variant requires
LacksRequiredFields(c) ==
    \/ variantOf(c) = filesystem /\ Len(c.Directories) = 0
    \/ variantOf(c) \in {csv, tsv} /\ c.CSVFilePath = <<>>
    \/ variantOf(c) = database
       /\ (c.DBType = <<>> \/ (c.DBTableName = <<>> /\ c.DBQuery = <<>>))

\* C13: AppConfig.Validate rejects every configuration whose source type
\* ValidateSourceType accepts and which lacks the required fields of that
\* variant: directories, csv_file_path, db_type, or both table name and query.
C13_IncompleteConfigRejected ==
    (ret.op = "AppConfig.Validate" /\ ValidateSourceType(arg.SourceType) = nil
        /\ LacksRequiredFields(arg)) => ret.err # nil

(***************************************************************************)
(* SpecValidate: Processor.Validate on a Processor whose fields a caller   *)
(* has set                                                                 *)
(***************************************************************************)
ValidateConfigs ==
    {[ZeroProcessor EXCEPT !.DBType = t, !.Host = h, !.Port = n, !.User = u,
                           !.DBName = dn, !.TableName = ids[1],
                           !.ColumnPath = ids[2], !.ColumnContent = ids[3],
                           !.ColumnType = ct, !.CustomQuery = cq] :
        t \in {<<>>, postgres, mysql, sqlite, <<"m","o","n","g","o","d","b">>, <<"P","O","S","T","G","R","E","S">>},
        h \in {<<>>, localhost, <<"d","b",";","r","m">>},
        n \in {0 - 1, 0, 5432, 65535, 65536, 99999},
        u \in {<<>>, <<"t","e","s","t","u","s","e","r">>},
        dn \in {<<>>, <<"t","e","s","t","d","b">>},
        ids \in {<<IdFiles, IdPath, IdContent>>, <<<<>>, IdPath, IdContent>>,
                 <<IdFiles, <<>>, <<>>>>, <<IdInjected, IdPath, IdContent>>},
        ct \in {<<>>, IdType, IdDigitFirst},
        cq \in {<<>>, QExample, QDropAfter}}

InitValidate ==
    /\ arg = <<>>
    /\ ret = NoRet
    /\ p \in ValidateConfigs
    /\ db = 0
    /\ handles = <<>>
    /\ executed = <<>>
    /\ established = FALSE

CallValidate ==
    /\ ret.op = "none"
    /\ ret' = [op |-> "Validate", err |-> Validate(p), val |-> <<>>]
    /\ UNCHANGED <<arg, dbVars>>

NextValidate == CallValidate

SpecValidate == InitValidate /\ [][NextValidate]_vars

\* the query part of the configuration is acceptable: a custom query that
\* ValidateCustomQuery passes, or valid table, path and content identifiers
\* with the optional columns valid when present
QueryPartValid(q) ==
    IF q.CustomQuery # <<>> THEN ValidateCustomQuery(q.CustomQuery) = nil
    ELSE /\ ValidateSQLIdentifier(q.TableName) = nil
         /\ ValidateSQLIdentifier(q.ColumnPath) = nil
         /\ ValidateSQLIdentifier(q.ColumnContent) = nil
         /\ q.ColumnType # <<>> => ValidateSQLIdentifier(q.ColumnType) = nil
         /\ q.ColumnSize # <<>> => ValidateSQLIdentifier(q.ColumnSize) = nil

\* host, port and user are all supplied and valid
NetworkPartSupplied(q) ==
    /\ q.Host # <<>>
    /\ \A i \in DOMAIN hostDangerousChars : ~Contains(q.Host, <<hostDangerousChars[i]>>)
    /\ q.Port # 0
    /\ q.Port \in 0..65535
    /\ q.User # <<>>

\* C14: Validate succeeds only if the database type is one of postgres, mysql,
\* sqlite, the database name is non-empty, for a networked type host, port and
\* user are all supplied and valid (a missing host, port or user is rejected),
\* and the query part is valid; for sqlite no host, port or user is needed.
C14_ValidateSucceedsOnlyIf ==
    ret.op = "Validate" =>
        /\ ret.err = nil =>
              /\ ToLower(p.DBType) \in validDatabaseTypes
              /\ p.DBName # <<>>
              /\ ToLower(p.DBType) \in {postgres, mysql} => NetworkPartSupplied(p)
              /\ QueryPartValid(p)
        /\ (p.DBType = sqlite /\ p.DBName # <<>> /\ QueryPartValid(p)) => ret.err = nil

(***************************************************************************)
(* pkg/processor: ProcessFiles over a file tree                            *)
(***************************************************************************)
\* strings.LastIndex for one character; 0 when it does not occur
LastIndexOf(s, c) ==
    LET S == {i \in DOMAIN s : s[i] = c}
    IN IF S = {} THEN 0 ELSE CHOOSE i \in S : \A j \in S : j <= i

RECURSIVE TrimTrailingSlashes(_)
TrimTrailingSlashes(s) ==
    IF s # <<>> /\ s[Len(s)] = "/" THEN TrimTrailingSlashes(SubSeq(s, 1, Len(s) - 1))
    ELSE s

\* filepath.Base
Base(path) ==
    IF path = <<>> THEN <<".">>
    ELSE LET t == TrimTrailingSlashes(path) IN
         IF t = <<>> THEN <<"/">>
         ELSE SubSeq(t, LastIndexOf(t, "/") + 1, Len(t))

\* filepath.Ext: from the last dot of the last element, empty when it has none
Ext(path) ==
    IF LastIndexOf(path, ".") > LastIndexOf(path, "/")
    THEN SubSeq(path, LastIndexOf(path, "."), Len(path))
    ELSE <<>>

\* strings.TrimPrefix
TrimPrefix(s, pre) ==
    IF HasPrefix(s, pre) THEN SubSeq(s, Len(pre) + 1, Len(s)) ELSE s

\* the directory holding a clean path with at least one separator
ParentOf(path) == SubSeq(path, 1, LastIndexOf(path, "/") - 1)

\* byte order of the characters that occur in names
byteOrder ==
    <<".", "/", "0","1","2","3","4","5","6","7","8","9", "_">> \o lowerLetters

ByteOf(c) == CHOOSE i \in DOMAIN byteOrder : byteOrder[i] = c

RECURSIVE StrLess(_, _)
StrLess(a, b) ==
    IF a = <<>> THEN b # <<>>
    ELSE IF b = <<>> THEN FALSE
    ELSE IF Head(a) = Head(b) THEN StrLess(Tail(a), Tail(b))
    ELSE ByteOf(Head(a)) < ByteOf(Head(b))

\* sort.Strings on a set of names
RECURSIVE SortStrings(_)
SortStrings(S) ==
    IF S = {} THEN <<>>
    ELSE LET m == CHOOSE x \in S : \A y \in S : y = x \/ StrLess(x, y)
         IN <<m>> \o SortStrings(S \ {m})

\* the file tree the walks run on: two roots, one with the files of the
\* filesystem example and one with a directory named digital
fsDirs == {<<"/","r">>, <<"/","r","/","s","u","b">>, <<"/","w">>, <<"/","w","/","d","i","g","i","t","a","l">>}

fsFiles ==
    (<<"/","r","/","a",".","g","o">> :> <<"p","a","c","k","a","g","e"," ","m","a","i","n">>)
    @@ (<<"/","r","/","b",".","l","o","g">> :> <<"l","o","g">>)
    @@ (<<"/","r","/","s","u","b","/","c",".","t","x","t">> :> <<"t","e","x","t">>)
    @@ (<<"/","w","/","d","i","g","i","t","a","l","/","d",".","g","o">> :> <<"f","u","n","c">>)
    @@ (<<"/","w","/","e",".","m","d">> :> <<"n","o","t","e","s">>)

fsEntries == fsDirs \cup DOMAIN fsFiles

\* shouldIgnoreDir comparing each token with the directory's own name
shouldIgnoreDirByName(path, config) ==
    \E i \in DOMAIN config.IgnoreDirs : Base(path) = config.IgnoreDirs[i]

shouldIgnoreDir(path, config) ==
    \E i \in DOMAIN config.IgnoreDirs : Contains(path, config.IgnoreDirs[i])

\* shouldIgnoreFile applying only the allowlist when it is non-empty
shouldIgnoreFileAllowlistOnly(path, config) ==
    LET filename == Base(path)
        ext == TrimPrefix(Ext(path), <<".">>)
    IN IF \E i \in DOMAIN config.IgnoreFiles : filename = config.IgnoreFiles[i] THEN TRUE
       ELSE IF Len(config.IncludeExts) > 0
       THEN ~(\E i \in DOMAIN config.IncludeExts : ext = config.IncludeExts[i])
       ELSE \E i \in DOMAIN config.IgnoreExts : ext = config.IgnoreExts[i]

\* shouldIgnoreFile: the three loops in order
shouldIgnoreFile(path, config) ==
    LET filename == Base(path)
        ext == TrimPrefix(Ext(path), <<".">>)
    IN IF \E i \in DOMAIN config.IgnoreFiles : filename = config.IgnoreFiles[i] THEN TRUE
       ELSE IF Len(config.IncludeExts) > 0
               /\ ~(\E i \in DOMAIN config.IncludeExts : ext = config.IncludeExts[i])
       THEN TRUE
       ELSE \E i \in DOMAIN config.IgnoreExts : ext = config.IgnoreExts[i]

\* one call of the walk function: st holds the results collected so far and the
\* calls made so far; ret is what the function returns to Walk
WalkFuncCall(st, root, path, did, returned) ==
    [st |-> [st EXCEPT !.calls = Append(@, [root |-> root, path |-> path, did |-> did])],
     ret |-> returned]

\* the walk function that descends into every directory the ignore rule passes
WalkFuncAlwaysRecursive(config, unreadable, root, path, err, st) ==
    IF err # nil THEN WalkFuncCall(st, root, path, "error", err)
    ELSE IF path \in fsDirs
    THEN IF shouldIgnoreDir(path, config)
         THEN WalkFuncCall(st, root, path, "ignored directory", "SkipDir")
         ELSE WalkFuncCall(st, root, path, "entered", nil)
    ELSE IF shouldIgnoreFile(path, config)
    THEN WalkFuncCall(st, root, path, "ignored file", nil)
    ELSE IF path \in unreadable
    THEN WalkFuncCall(st, root, path, "error", "read: permission denied")
    ELSE WalkFuncCall([st EXCEPT !.results =
                          Append(@, [Path |-> path, Content |-> fsFiles[path]])],
                      root, path, "appended", nil)

\* the walk function that appends each new record in front of the others
WalkFuncPrepends(config, unreadable, root, path, err, st) ==
    IF err # nil THEN WalkFuncCall(st, root, path, "error", err)
    ELSE IF path \in fsDirs
    THEN IF shouldIgnoreDir(path, config)
         THEN WalkFuncCall(st, root, path, "ignored directory", "SkipDir")
         ELSE IF ~config.Recursive /\ path # config.Dirs[root]
         THEN WalkFuncCall(st, root, path, "not descended", "SkipDir")
         ELSE WalkFuncCall(st, root, path, "entered", nil)
    ELSE IF shouldIgnoreFile(path, config)
    THEN WalkFuncCall(st, root, path, "ignored file", nil)
    ELSE IF path \in unreadable
    THEN WalkFuncCall(st, root, path, "error", "read: permission denied")
    ELSE WalkFuncCall([st EXCEPT !.results =
                          <<[Path |-> path, Content |-> fsFiles[path]]>> \o @],
                      root, path, "appended", nil)

\* the function ProcessFiles hands to filepath.Walk, for root number root
WalkFunc(config, unreadable, root, path, err, st) ==
    IF err # nil THEN WalkFuncCall(st, root, path, "error", err)
    ELSE IF path \in fsDirs
    THEN IF shouldIgnoreDir(path, config)
         THEN WalkFuncCall(st, root, path, "ignored directory", "SkipDir")
         ELSE IF ~config.Recursive /\ path # config.Dirs[root]
         THEN WalkFuncCall(st, root, path, "not descended", "SkipDir")
         ELSE WalkFuncCall(st, root, path, "entered", nil)
    ELSE IF shouldIgnoreFile(path, config)
    THEN WalkFuncCall(st, root, path, "ignored file", nil)
    ELSE IF path \in unreadable
    THEN WalkFuncCall(st, root, path, "error", "read: permission denied")
    ELSE WalkFuncCall([st EXCEPT !.results =
                          Append(@, [Path |-> path, Content |-> fsFiles[path]])],
                      root, path, "appended", nil)

\* readDirNames: the sorted names of a directory's entries
readDirNames(path) ==
    SortStrings({Base(x) : x \in {y \in fsEntries : ParentOf(y) = path}})

\* filepath.walk: a file is handed to the function; a directory is read first
\* and the function is called once with the outcome of the read; the names are
\* walked in order, and SkipDir from a directory skips that directory only
RECURSIVE walk(_, _, _, _, _), walkNames(_, _, _, _, _, _)
walk(config, unreadable, root, path, st) ==
    IF path \notin fsDirs THEN WalkFunc(config, unreadable, root, path, nil, st)
    ELSE LET err == IF path \in unreadable THEN "open: permission denied" ELSE nil
             r1 == WalkFunc(config, unreadable, root, path, err, st)
         IN IF err # nil \/ r1.ret # nil THEN r1
            ELSE walkNames(config, unreadable, root, path, readDirNames(path), r1.st)

walkNames(config, unreadable, root, path, names, st) ==
    IF names = <<>> THEN [st |-> st, ret |-> nil]
    ELSE LET filename == path \o <<"/">> \o Head(names)
             r == walk(config, unreadable, root, filename, st)
         IN IF r.ret # nil /\ ~(filename \in fsDirs /\ r.ret = "SkipDir") THEN r
            ELSE walkNames(config, unreadable, root, path, Tail(names), r.st)

\* filepath.Walk: Lstat of the root, then walk; SkipDir from the root is no error
Walk(config, unreadable, root, st) ==
    LET dir == config.Dirs[root]
        r == IF dir \notin fsEntries
             THEN WalkFunc(config, unreadable, root, dir,
                           "lstat: no such file or directory", st)
             ELSE walk(config, unreadable, root, dir, st)
    IN IF r.ret = "SkipDir" THEN [r EXCEPT !.ret = nil] ELSE r

\* the loop over config.Dirs: the first error ends it and drops the results
RECURSIVE walkDirs(_, _, _, _)
walkDirs(config, unreadable, root, st) ==
    IF root > Len(config.Dirs)
    THEN [results |-> st.results, err |-> nil, calls |-> st.calls]
    ELSE LET r == Walk(config, unreadable, root, st)
         IN IF r.ret # nil
            THEN [results |-> <<>>, err |-> r.ret, calls |-> r.st.calls]
            ELSE walkDirs(config, unreadable, root + 1, r.st)

\* ProcessFiles returning, with the error, the records appended before it
ProcessFilesKeepsPartial(config, unreadable) ==
    LET r == walkDirs(config, unreadable, 1, [results |-> <<>>, calls |-> <<>>])
        appended == SelectSeq(r.calls, LAMBDA c : c.did = "appended")
    IN [r EXCEPT !.results = [k \in DOMAIN appended |->
                                [Path |-> appended[k].path,
                                 Content |-> fsFiles[appended[k].path]]]]

ProcessFiles(config, unreadable) ==
    walkDirs(config, unreadable, 1, [results |-> <<>>, calls |-> <<>>])

(***************************************************************************)
(* SpecFiles: ProcessFiles on one configuration, with some entries of the  *)
(* tree unreadable                                                         *)
(***************************************************************************)
\* roots a configuration can name: the two directories, a path that does not
\* exist, a directory whose own name holds "git", and a regular file
RootPaths == {<<"/","r">>, <<"/","w">>, <<"/","l","e","g","i","t">>, <<"/","w","/","d","i","g","i","t","a","l">>, <<"/","r","/","a",".","g","o">>}

FileConfigs ==
    [Dirs : SeqsUpTo(RootPaths, MaxRoots),
     Recursive : BOOLEAN,
     IgnoreDirs : {<<>>, <<<<"g","i","t">>>>, <<<<"s","u","b">>>>},
     IgnoreFiles : {<<>>, <<<<"a",".","g","o">>>>},
     IgnoreExts : {<<>>, <<<<"l","o","g">>>>},
     IncludeExts : {<<>>, <<<<"g","o">>>>}]

UnreadableSets == {{}, {<<"/","r","/","b",".","l","o","g">>}, {<<"/","r","/","s","u","b">>}, {<<"/","w","/","d","i","g","i","t","a","l">>}}

InitFiles ==
    /\ arg \in [config : FileConfigs, unreadable : UnreadableSets]
    /\ ret = NoRet
    /\ DBIdle

CallProcessFiles ==
    /\ ret.op = "none"
    /\ LET r == ProcessFiles(arg.config, arg.unreadable)
       IN ret' = [op |-> "ProcessFiles", err |-> r.err,
                  val |-> [results |-> r.results, calls |-> r.calls]]
    /\ UNCHANGED <<arg, dbVars>>

NextFiles == CallProcessFiles

SpecFiles == InitFiles /\ [][NextFiles]_vars

\* x is d or lies below d
IsUnder(x, d) == x = d \/ HasPrefix(x, d \o <<"/">>)

\* some directory from the root down to the one holding f is matched by an
\* ignore-directory token
InSkippedSubtree(config, dir, f) ==
    \E d \in fsDirs : IsUnder(d, dir) /\ IsUnder(f, d) /\ shouldIgnoreDir(d, config)

\* the files one root contributes
FilesOfRoot(config, dir) ==
    {f \in DOMAIN fsFiles :
        /\ IsUnder(f, dir)
        /\ ~InSkippedSubtree(config, dir, f)
        /\ ~shouldIgnoreFile(f, config)
        /\ config.Recursive \/ f = dir \/ ParentOf(f) = dir}

\* C15: on success the result holds, for every root, exactly one record for
\* each regular file under it that is in no skipped subtree, is not excluded by
\* the file rules and (when Recursive is false) lies directly in the root, and
\* no other record; each content is the file's content.  The root with a.go,
\* b.log and sub/c.txt and ignoreExts = [log] gives exactly a.go and sub/c.txt.
C15_OneRecordPerIncludedFile ==
    (ret.op = "ProcessFiles" /\ ret.err = nil) =>
        LET results == ret.val.results
            config == arg.config
        IN /\ \A k \in DOMAIN results :
                 /\ results[k].Path \in DOMAIN fsFiles
                 /\ results[k].Content = fsFiles[results[k].Path]
           /\ \A f \in DOMAIN fsFiles :
                 Cardinality({k \in DOMAIN results : results[k].Path = f})
                   = Cardinality({i \in DOMAIN config.Dirs :
                                     f \in FilesOfRoot(config, config.Dirs[i])})
           /\ (config = [Dirs |-> <<<<"/","r">>>>, Recursive |-> TRUE, IgnoreDirs |-> <<>>,
                         IgnoreFiles |-> <<>>, IgnoreExts |-> <<<<"l","o","g">>>>,
                         IncludeExts |-> <<>>])
                 => {results[k] : k \in DOMAIN results}
                      = {[Path |-> <<"/","r","/","a",".","g","o">>, Content |-> <<"p","a","c","k","a","g","e"," ","m","a","i","n">>],
                         [Path |-> <<"/","r","/","s","u","b","/","c",".","t","x","t">>, Content |-> <<"t","e","x","t">>]}

\* the example root has been processed with ignoreExts = [log]
C15_Witness ==
    /\ ret.op = "ProcessFiles"
    /\ ret.err = nil
    /\ arg.config.Dirs = <<<<"/","r">>>>
    /\ arg.config.Recursive
    /\ arg.config.IgnoreExts = <<<<"l","o","g">>>>
    /\ arg.unreadable = {<<"/","r","/","b",".","l","o","g">>}
    /\ Len(ret.val.results) = 2

(***************************************************************************)
(* SpecIgnoreFile: shouldIgnoreFile on one path and one configuration      *)
(***************************************************************************)
IgnoreFilePaths ==
    {<<"/","p","a","t","h","/","t","o","/",".","D","S","_","S","t","o","r","e">>, <<"/","p","a","t","h","/","t","o","/","f","i","l","e",".","l","o","g">>, <<"/","p","a","t","h","/","t","o","/","f","i","l","e",".","g","o">>, <<"/","p","a","t","h","/","t","o","/","f","i","l","e",".","t","x","t">>, <<"/","p","a","t","h","/","t","o","/","M","a","k","e","f","i","l","e">>}

IgnoreFileConfigs ==
    [Dirs : {<<>>},
     Recursive : {TRUE},
     IgnoreDirs : {<<>>},
     IgnoreFiles : {<<>>, <<<<".","D","S","_","S","t","o","r","e">>>>, <<<<"f","i","l","e",".","g","o">>>>},
     IgnoreExts : {<<>>, <<<<"l","o","g">>, <<"t","m","p">>>>, <<<<"g","o">>>>},
     IncludeExts : {<<>>, <<<<"g","o">>, <<"m","d">>>>, <<<<"t","x","t">>>>}]

InitIgnoreFile ==
    /\ arg \in [path : IgnoreFilePaths, config : IgnoreFileConfigs]
    /\ ret = NoRet
    /\ DBIdle

CallShouldIgnoreFile ==
    /\ ret.op = "none"
    /\ ret' = [op |-> "shouldIgnoreFile", err |-> nil,
               val |-> shouldIgnoreFile(arg.path, arg.config)]
    /\ UNCHANGED <<arg, dbVars>>

NextIgnoreFile == CallShouldIgnoreFile

SpecIgnoreFile == InitIgnoreFile /\ [][NextIgnoreFile]_vars

\* the base name is one of the ignore-file entries
NameIgnored(path, config) ==
    \E i \in DOMAIN config.IgnoreFiles : Base(path) = config.IgnoreFiles[i]

\* the extension without its leading dot is a member of the list
ExtIn(path, list) ==
    \E i \in DOMAIN list : TrimPrefix(Ext(path), <<".">>) = list[i]

\* C16 as stated: with a non-empty allowlist a file whose name is not ignored
\* is skipped iff its extension is not in the allowlist; with an empty
\* allowlist iff its extension is in the denylist; an ignored name is always
\* skipped.
C16_AllowlistReplacesDenylist ==
    ret.op = "shouldIgnoreFile" =>
        IF NameIgnored(arg.path, arg.config) THEN ret.val = TRUE
        ELSE IF Len(arg.config.IncludeExts) > 0
        THEN ret.val = ~ExtIn(arg.path, arg.config.IncludeExts)
        ELSE ret.val = ExtIn(arg.path, arg.config.IgnoreExts)

\* C16 amended: a file whose name is not ignored is skipped iff the allowlist
\* is non-empty and lacks its extension, or the denylist holds its extension
\* (the denylist applies whether or not there is an allowlist); an ignored
\* name is always skipped.
C16_AllowlistThenDenylist ==
    ret.op = "shouldIgnoreFile" =>
        IF NameIgnored(arg.path, arg.config) THEN ret.val = TRUE
        ELSE ret.val = (\/ Len(arg.config.IncludeExts) > 0
                           /\ ~ExtIn(arg.path, arg.config.IncludeExts)
                        \/ ExtIn(arg.path, arg.config.IgnoreExts))

\* a file whose extension is in both lists has been skipped
C16_Witness ==
    /\ ret.op = "shouldIgnoreFile"
    /\ ret.val = TRUE
    /\ ~NameIgnored(arg.path, arg.config)
    /\ ExtIn(arg.path, arg.config.IncludeExts)
    /\ ExtIn(arg.path, arg.config.IgnoreExts)

\* some ignore-directory token is a substring of the path
TokenInPath(path, config) ==
    \E i \in DOMAIN config.IgnoreDirs : Contains(path, config.IgnoreDirs[i])

\* the walk function returned SkipDir for the directory of call k
SkippedAt(calls, k) == calls[k].did \in {"ignored directory", "not descended"}

\* no call after k, in the walk of the same root, is for a path below k's
NothingBelowAfter(calls, k) ==
    \A j \in DOMAIN calls :
        (j > k /\ calls[j].root = calls[k].root) =>
            ~IsUnder(calls[j].path, calls[k].path)

\* no record lies below a directory whose path holds an ignore-directory token
NoRecordBelowIgnored(results, config) ==
    \A k \in DOMAIN results : \A d \in fsDirs :
        IsUnder(results[k].Path, d) => ~TokenInPath(d, config)

\* C17 as stated: a directory is skipped with its subtree iff a token is a
\* substring of its path; a root whose own path holds a token yields no
\* records and no error; no record lies below a directory whose path holds one.
C17_SkippedIffTokenInPath ==
    ret.op = "ProcessFiles" =>
        LET calls == ret.val.calls
            config == arg.config
        IN /\ \A k \in DOMAIN calls :
                 calls[k].path \in fsDirs =>
                    (SkippedAt(calls, k) <=> TokenInPath(calls[k].path, config))
           /\ \A k \in DOMAIN calls :
                 (calls[k].path = config.Dirs[calls[k].root]
                    /\ TokenInPath(calls[k].path, config)) =>
                       /\ calls[k].did # "error"
                       /\ NothingBelowAfter(calls, k)
           /\ NoRecordBelowIgnored(ret.val.results, config)

\* C17 amended: a directory that exists and can be read is skipped with its
\* subtree by the ignore rule iff a token is a substring of its full path (a
\* non-recursive walk skips every other subdirectory as well); a root that
\* exists, can be read and holds a token in its own path yields no records and
\* no error; no record lies below a directory whose path holds a token.
C17_ReadableSkippedIffTokenInPath ==
    ret.op = "ProcessFiles" =>
        LET calls == ret.val.calls
            config == arg.config
        IN /\ \A k \in DOMAIN calls :
                 (calls[k].path \in fsDirs /\ calls[k].did # "error") =>
                    /\ calls[k].did = "ignored directory"
                          <=> TokenInPath(calls[k].path, config)
                    /\ SkippedAt(calls, k) <=>
                          \/ TokenInPath(calls[k].path, config)
                          \/ ~config.Recursive /\ calls[k].path # config.Dirs[calls[k].root]
                    /\ SkippedAt(calls, k) => NothingBelowAfter(calls, k)
           /\ \A k \in DOMAIN calls :
                 (calls[k].path = config.Dirs[calls[k].root]
                    /\ calls[k].path \in fsDirs \ arg.unreadable
                    /\ TokenInPath(calls[k].path, config)) =>
                       /\ calls[k].did = "ignored directory"
                       /\ NothingBelowAfter(calls, k)
           /\ NoRecordBelowIgnored(ret.val.results, config)

\* token git: the walk of /w skipped the directory digital and kept e.md
C17_Witness ==
    /\ ret.op = "ProcessFiles"
    /\ ret.err = nil
    /\ arg.config.Dirs = <<<<"/","w">>>>
    /\ arg.config.Recursive
    /\ arg.config.IgnoreDirs = <<<<"g","i","t">>>>
    /\ \E k \in DOMAIN ret.val.calls :
          /\ ret.val.calls[k].path = <<"/","w","/","d","i","g","i","t","a","l">>
          /\ ret.val.calls[k].did = "ignored directory"
    /\ \E k \in DOMAIN ret.val.results : ret.val.results[k].Path = <<"/","w","/","e",".","m","d">>

\* root number i does not exist, or is a directory that cannot be read
RootFails(config, unreadable, i) ==
    \/ config.Dirs[i] \notin fsEntries
    \/ config.Dirs[i] \in fsDirs \cap unreadable

\* some file a root would contribute cannot be read
IncludedFileFails(config, unreadable) ==
    \E i \in DOMAIN config.Dirs :
        \E f \in FilesOfRoot(config, config.Dirs[i]) : f \in unreadable

\* C18: if a root is missing or unreadable, or a non-excluded file cannot be
\* read, ProcessFiles returns an error and no records; whenever it returns an
\* error the records collected so far are dropped, the failing call is the last
\* one and no later root is walked.
C18_FirstErrorDiscardsAll ==
    ret.op = "ProcessFiles" =>
        LET calls == ret.val.calls
            config == arg.config
        IN /\ ((\E i \in DOMAIN config.Dirs : RootFails(config, arg.unreadable, i))
                 \/ IncludedFileFails(config, arg.unreadable)) => ret.err # nil
           /\ ret.err # nil =>
                 /\ ret.val.results = <<>>
                 /\ calls # <<>>
                 /\ calls[Len(calls)].did = "error"
                 /\ \A k \in DOMAIN calls :
                       /\ calls[k].root <= calls[Len(calls)].root
                       /\ calls[k].did = "error" => k = Len(calls)

\* /r was walked and gave records, then the second root did not exist: the
\* result is the error alone
C18_Witness ==
    /\ ret.op = "ProcessFiles"
    /\ ret.err = "lstat: no such file or directory"
    /\ arg.config.Dirs = <<<<"/","r">>, <<"/","l","e","g","i","t">>>>
    /\ \E k \in DOMAIN ret.val.calls : ret.val.calls[k].did = "appended"
    /\ ret.val.results = <<>>

(***************************************************************************)
(* pkg/sources/csv: Processor.Process                                      *)
(***************************************************************************)
\* TrimLeadingSpace: white space in front of a field is dropped
RECURSIVE TrimLeft(_)
TrimLeft(s) == IF s # <<>> /\ s[1] \in {" ", "\t"} THEN TrimLeft(Tail(s)) ELSE s

\* the records of a text without quoted fields: one per non-empty line, its
\* fields the pieces between the delimiters
csvRecords(text, comma) ==
    LET lines == SelectSeq(Split(text, "\n"), LAMBDA l : l # <<>>)
    IN [i \in DOMAIN lines |->
          [j \in DOMAIN Split(lines[i], comma) |-> TrimLeft(Split(lines[i], comma)[j])]]

\* csv.Reader.ReadAll with FieldsPerRecord left at 0: the first record fixes
\* the number of fields, and a later record with another number is an error
ReadAll(text, comma) ==
    LET records == csvRecords(text, comma)
    IN IF \E i \in DOMAIN records : Len(records[i]) # Len(records[1])
       THEN [records |-> <<>>, err |-> "wrong number of fields"]
       ELSE [records |-> records, err |-> nil]

\* the loop over the records from startIndex on
RECURSIVE csvRows(_, _, _, _)
csvRows(q, records, i, results) ==
    IF i > Len(records) THEN results
    ELSE LET record == records[i] IN
         IF q.PathColumn >= Len(record) THEN csvRows(q, records, i + 1, results)
         ELSE IF q.ContentColumn >= Len(record) THEN csvRows(q, records, i + 1, results)
         ELSE IF record[q.PathColumn + 1] = <<>> THEN csvRows(q, records, i + 1, results)
         ELSE csvRows(q, records, i + 1,
                      Append(results, [Path |-> record[q.PathColumn + 1],
                                       Content |-> record[q.ContentColumn + 1]]))

\* Process without the check for a file that holds no record
csvProcessNoEmptyCheck(q, file) ==
    IF ~file.exists THEN [results |-> <<>>, err |-> "failed to open CSV file"]
    ELSE LET r == ReadAll(file.text, q.Delimiter) IN
         IF r.err # nil THEN [results |-> <<>>, err |-> "failed to read CSV file"]
         ELSE [results |-> csvRows(q, r.records, IF q.HasHeader THEN 2 ELSE 1, <<>>),
               err |-> nil]

\* Process: os.Open, ReadAll, the empty check, the header, the loop
csvProcess(q, file) ==
    IF ~file.exists THEN [results |-> <<>>, err |-> "failed to open CSV file"]
    ELSE LET r == ReadAll(file.text, q.Delimiter) IN
         IF r.err # nil THEN [results |-> <<>>, err |-> "failed to read CSV file"]
         ELSE IF Len(r.records) = 0 THEN [results |-> <<>>, err |-> "CSV file is empty"]
         ELSE [results |-> csvRows(q, r.records, IF q.HasHeader THEN 2 ELSE 1, <<>>),
               err |-> nil]

(***************************************************************************)
(* SpecCSV: csv Process on one file                                        *)
(***************************************************************************)
\* lines a file is made of: a header, a full row, a row with an empty path, a
\* row with one field only, a row with three fields
CsvLines == {<<"p","a","t","h",",","c","o","n","t","e","n","t","\n">>, <<"a",".","g","o",",","x","\n">>, <<",","y","\n">>, <<"b",".","p","y","\n">>, <<"c",".","j","s",","," ","z",",","w","\n">>}

\* files written whole: header and two data rows without a final newline, the
\* header alone, and blank lines only
CsvTwoRows == <<"p","a","t","h",",","c","o","n","t","e","n","t","\n","f","i","l","e","1",".","g","o",",","p","a","c","k","a","g","e"," ","m","a","i","n","\n","f","i","l","e","2",".","p","y",",","i","m","p","o","r","t"," ","s","y","s">>
CsvHeaderOnly == <<"p","a","t","h",",","c","o","n","t","e","n","t">>
CsvBlankLines == <<"\n","\n">>

CsvFiles ==
    {[exists |-> FALSE, text |-> <<>>]}
    \cup {[exists |-> TRUE, text |-> Flatten(ls)] : ls \in SeqsUpTo(CsvLines, MaxLines)}
    \cup {[exists |-> TRUE, text |-> t] : t \in {CsvTwoRows, CsvHeaderOnly, CsvBlankLines}}

CsvProcessors ==
    [Delimiter : {",", ";"}, PathColumn : {0, 1, 5}, ContentColumn : {0, 1},
     HasHeader : BOOLEAN]

InitCSV ==
    /\ arg \in [proc : CsvProcessors, file : CsvFiles]
    /\ ret = NoRet
    /\ DBIdle

CallCsvProcess ==
    /\ ret.op = "none"
    /\ LET r == csvProcess(arg.proc, arg.file)
       IN ret' = [op |-> "csv.Process", err |-> r.err, val |-> r.results]
    /\ UNCHANGED <<arg, dbVars>>

NextCSV == CallCsvProcess

SpecCSV == InitCSV /\ [][NextCSV]_vars

\* the data rows of the file: its rows, without the first when it is a header
DataRows(q, file) ==
    LET rows == csvRecords(file.text, q.Delimiter)
    IN IF q.HasHeader THEN SubSeq(rows, 2, Len(rows)) ELSE rows

\* both column indices are within the row and its path value is non-empty
RowEmits(q, row) ==
    /\ q.PathColumn < Len(row)
    /\ q.ContentColumn < Len(row)
    /\ row[q.PathColumn + 1] # <<>>

\* the records the data rows give, in row order
RecordsOfRows(q, file) ==
    LET kept == SelectSeq(DataRows(q, file), LAMBDA row : RowEmits(q, row))
    IN [k \in DOMAIN kept |-> [Path |-> kept[k][q.PathColumn + 1],
                               Content |-> kept[k][q.ContentColumn + 1]]]

\* C20: for a file that holds rows, Process succeeds and emits a record for a
\* data row iff both column indices are within that row's field count and its
\* path value is non-empty; a row too short for a required column, shorter
\* than other rows of the file included, is dropped and the rest is returned.
C20_ShortRowsSkippedNotFatal ==
    (ret.op = "csv.Process" /\ arg.file.exists
        /\ csvRecords(arg.file.text, arg.proc.Delimiter) # <<>>) =>
        /\ ret.err = nil
        /\ ret.val = RecordsOfRows(arg.proc, arg.file)

(***************************************************************************)
(* SpecSources: one run of one of the three sources, the relational one    *)
(* with its Connect, Process and Close in any order                        *)
(***************************************************************************)
InitSources == Init \/ InitFiles \/ InitCSV

\* the source a state belongs to is read off the input it was started with
NextSources ==
    \/ DOMAIN arg = {} /\ Next
    \/ "config" \in DOMAIN arg /\ CallProcessFiles
    \/ "proc" \in DOMAIN arg /\ CallCsvProcess

SpecSources == InitSources /\ [][NextSources]_vars

\* filepath.Walk reaches a before b: at the first component where the two
\* paths part, a's name sorts first
TraversalBefore(a, b) ==
    LET ca == Split(a, "/")
        cb == Split(b, "/")
    IN \E i \in 1..Len(ca) :
          /\ i <= Len(cb)
          /\ SubSeq(ca, 1, i - 1) = SubSeq(cb, 1, i - 1)
          /\ StrLess(ca[i], cb[i])

\* C19: every source returns its records in input order: the tabular source
\* the data rows it did not skip, in file row order; the relational source one
\* record per returned row, in the order the database returned them; the
\* filesystem source the files of the roots in configured order and, within a
\* root, in traversal order.
C19_RecordsInInputOrder ==
    /\ (ret.op = "csv.Process" /\ ret.err = nil) =>
          ret.val = RecordsOfRows(arg.proc, arg.file)
    /\ (ret.op = "Process" /\ ret.err = nil) =>
          /\ Len(ret.val.results) = Len(ret.val.rows)
          /\ \A i \in DOMAIN ret.val.rows :
                /\ ret.val.results[i].Path = ret.val.rows[i].path
                /\ ret.val.results[i].Content = ret.val.rows[i].content
    /\ (ret.op = "ProcessFiles" /\ ret.err = nil) =>
          LET appended == SelectSeq(ret.val.calls, LAMBDA c : c.did = "appended")
          IN /\ Len(ret.val.results) = Len(appended)
             /\ \A k \in DOMAIN appended :
                   /\ ret.val.results[k].Path = appended[k].path
                   /\ ret.val.results[k].Content = fsFiles[appended[k].path]
             /\ \A j, k \in DOMAIN appended :
                   j < k =>
                      /\ appended[j].root <= appended[k].root
                      /\ appended[j].root = appended[k].root =>
                            TraversalBefore(appended[j].path, appended[k].path)

\* /w and then /r were walked in full: the records are those of /w, then those
\* of /r, each root's files in the order of the walk
C19_Witness ==
    /\ ret.op = "ProcessFiles"
    /\ ret.err = nil
    /\ arg.config.Dirs = <<<<"/","w">>, <<"/","r">>>>
    /\ Len(ret.val.results) = 5
    /\ ret.val.results[1].Path = <<"/","w","/","d","i","g","i","t","a","l","/","d",".","g","o">>
    /\ ret.val.results[2].Path = <<"/","w","/","e",".","m","d">>
    /\ ret.val.results[4].Path = <<"/","r","/","b",".","l","o","g">>
    /\ ret.val.results[5].Path = <<"/","r","/","s","u","b","/","c",".","t","x","t">>

\* C21: Process answers a file without rows with an error and no result; the
\* file with header path,content and two data rows gives, with hasHeader, the
\* two data rows as records; a file whose only row is the header gives, with
\* hasHeader, success and no record.
C21_EmptyFileIsError ==
    ret.op = "csv.Process" =>
        /\ (arg.file.exists /\ csvRecords(arg.file.text, arg.proc.Delimiter) = <<>>) =>
              (ret.err = "CSV file is empty" /\ ret.val = <<>>)
        /\ (arg.file.text = CsvTwoRows /\ arg.proc.HasHeader /\ arg.proc.Delimiter = ","
               /\ arg.proc.PathColumn = 0 /\ arg.proc.ContentColumn = 1) =>
              /\ ret.err = nil
              /\ ret.val = <<[Path |-> <<"f","i","l","e","1",".","g","o">>, Content |-> <<"p","a","c","k","a","g","e"," ","m","a","i","n">>],
                             [Path |-> <<"f","i","l","e","2",".","p","y">>, Content |-> <<"i","m","p","o","r","t"," ","s","y","s">>]>>
        /\ (arg.file.exists /\ arg.proc.HasHeader
               /\ Len(csvRecords(arg.file.text, arg.proc.Delimiter)) = 1) =>
              (ret.err = nil /\ ret.val = <<>>)

\* Process has answered the file of blank lines with the error
C21_Witness ==
    /\ ret.op = "csv.Process"
    /\ arg.file.text = CsvBlankLines
    /\ ret.err = "CSV file is empty"

(***************************************************************************)
(* internal/gui: Server.handleTestDB on the server's current configuration *)
(***************************************************************************)
\* database.NewProcessor: the connection fields only; table, columns and
\* custom query keep their zero value
NewProcessor(dbType, host, port, dbName, user, password, sslMode) ==
    [ZeroProcessor EXCEPT !.DBType = dbType, !.Host = host, !.Port = port,
                          !.DBName = dbName, !.User = user, !.Password = password,
                          !.SSLMode = sslMode]

testdb == <<"t","e","s","t","d","b">>

TestDBConfigs ==
    {[ZeroAppConfig EXCEPT !.SourceType = st, !.DBType = dt, !.DBHost = h,
                           !.DBPort = pt, !.DBName = n, !.DBUser = u,
                           !.DBPassword = testpass,
                           !.DBTableName = tn, !.DBColumnPath = tn,
                           !.DBColumnContent = tn, !.DBQuery = dq] :
        st \in {database, filesystem},
        dt \in {postgres, sqlite, oracle},
        h \in {<<>>, localhost},
        pt \in {0, 5432},
        n \in {<<>>, testdb},
        u \in {<<>>, <<"u","s","e","r">>},
        tn \in {<<>>, IdFiles},
        dq \in {<<>>, QExample}}

InitTestDB ==
    /\ arg \in TestDBConfigs
    /\ ret = NoRet
    /\ DBIdle

\* handleTestDB for a POST: the source type check, NewProcessor, SetDefaults,
\* Validate, TestConnection (Connect, then Close) and the response
HandleTestDB ==
    /\ ret.op = "none"
    /\ IF arg.SourceType # database
       THEN /\ ret' = [op |-> "handleTestDB",
                       err |-> "Configuration is not set for database source", val |-> 400]
            /\ UNCHANGED <<arg, dbVars>>
       ELSE LET q == SetDefaults(NewProcessor(arg.DBType, arg.DBHost, arg.DBPort,
                                              arg.DBName, arg.DBUser, arg.DBPassword,
                                              arg.DBSSLMode))
            IN /\ p' = q
               /\ IF Validate(q) # nil
                  THEN /\ ret' = [op |-> "handleTestDB",
                                  err |-> "Invalid database configuration", val |-> 400]
                       /\ UNCHANGED <<arg, db, handles, executed, established>>
                  ELSE IF driverName(q.DBType) = ""
                  THEN /\ ret' = [op |-> "handleTestDB",
                                  err |-> "Database connection failed", val |-> 400]
                       /\ UNCHANGED <<arg, db, handles, executed, established>>
                  ELSE \/ \* sql.Open fails
                          /\ ret' = [op |-> "handleTestDB",
                                     err |-> "Database connection failed", val |-> 400]
                          /\ UNCHANGED <<arg, db, handles, executed, established>>
                       \/ \* Ping fails and Connect closes the handle, or Connect
                          \* succeeds and Close closes it, with or without an error
                          /\ handles' = Append(handles, "closed")
                          /\ \/ ret' = [op |-> "handleTestDB",
                                        err |-> "Database connection failed", val |-> 400]
                             \/ ret' = [op |-> "handleTestDB", err |-> nil, val |-> 200]
                          /\ UNCHANGED <<arg, db, executed, established>>

NextTestDB == HandleTestDB

SpecTestDB == InitTestDB /\ [][NextTestDB]_vars

\* type, host, port, user and database name of the Processor the handler builds
\* pass the checks Validate makes on them
ConnectionParametersValid(c) ==
    LET q == SetDefaults(NewProcessor(c.DBType, c.DBHost, c.DBPort, c.DBName,
                                      c.DBUser, c.DBPassword, c.DBSSLMode))
    IN /\ ValidateDatabaseType(q.DBType) = nil
       /\ q.DBType # sqlite =>
             (ValidateHost(q.Host) = nil /\ ValidatePort(q.Port) = nil /\ q.User # <<>>)
       /\ q.DBName # <<>>

\* C22: for a database source whose connection parameters are valid the
\* test-connection request is never refused as an invalid configuration, whether
\* or not a table name or a custom query is configured: it reports success, or
\* that the connection failed when the database cannot be reached.
C22_TestDBIgnoresQueryPart ==
    (ret.op = "handleTestDB" /\ arg.SourceType = database
        /\ ConnectionParametersValid(arg)) =>
        ret.err \in {nil, "Database connection failed"}

\* C23: ValidateCustomQuery rejects every query that holds the stored-procedure
\* prefix xp_ or sp_ in any letter case, also one that starts with SELECT and
\* holds no other forbidden keyword.
C23_StoredProcedurePrefixRejected ==
    (ret.op = "ValidateCustomQuery"
        /\ \/ Contains(ToUpper(arg), <<"X","P","_">>)
           \/ Contains(ToUpper(arg), <<"S","P","_">>)) =>
        ret.err # nil

(***************************************************************************)
(* internal/gui: the Server and its request handlers.  arg holds the        *)
(* server's current configuration and the configuration files on disk; ret  *)
(* is the response to the last request, val the file the handler opened.    *)
(***************************************************************************)
\* AppConfig.SetDefaults
AppConfigSetDefaults(c) ==
    LET c1 == IF c.OutputFile = <<>> THEN [c EXCEPT !.OutputFile = <<"o","u","t","p","u","t",".","t","x","t">>] ELSE c
        c2 == IF c1.SourceType = filesystem /\ c1.Directories = <<>>
              THEN [c1 EXCEPT !.Directories = <<<<".">>>>] ELSE c1
        c3 == IF c2.SourceType = csv /\ c2.CSVDelimiter = <<>>
              THEN [c2 EXCEPT !.CSVDelimiter = <<",">>]
              ELSE IF c2.SourceType = tsv /\ c2.CSVDelimiter = <<>>
              THEN [c2 EXCEPT !.CSVDelimiter = <<"\t">>]
              ELSE c2
    IN IF c3.DBType = <<>> THEN c3
       ELSE [c3 EXCEPT !.DBHost = IF @ = <<>> THEN localhost ELSE @,
                       !.DBPort = IF @ # 0 THEN @
                                  ELSE IF c3.DBType = postgres THEN 5432
                                  ELSE IF c3.DBType = mysql THEN 3306
                                  ELSE 0,
                       !.DBSSLMode = IF @ = <<>> THEN <<"d","i","s","a","b","l","e">> ELSE @]

\* configfile.NewDefault
NewDefault ==
    [ZeroAppConfig EXCEPT !.SourceType = filesystem, !.Directories = <<<<".">>>>,
                          !.Recursive = TRUE, !.OutputFile = <<"o","u","t","p","u","t",".","t","x","t">>]

\* configurations a POST to /api/config carries, as decoded: three complete
\* ones, an unknown source type, a directory that climbs out, and an upper-case
\* source type without the fields of its source
PostedConfigs ==
    {[ZeroAppConfig EXCEPT !.SourceType = filesystem],
     [ZeroAppConfig EXCEPT !.SourceType = csv, !.CSVFilePath = <<"/","t","m","p","/","d","a","t","a",".","c","s","v">>],
     [ZeroAppConfig EXCEPT !.SourceType = database, !.DBType = postgres,
                           !.DBName = testdb, !.DBUser = <<"u","s","e","r">>,
                           !.DBTableName = IdFiles, !.DBColumnPath = IdPath,
                           !.DBColumnContent = IdContent],
     [ZeroAppConfig EXCEPT !.SourceType = <<"i","n","v","a","l","i","d">>],
     [ZeroAppConfig EXCEPT !.SourceType = filesystem, !.Directories = <<<<".",".","/","x">>>>],
     [ZeroAppConfig EXCEPT !.SourceType = <<"C","S","V">>]}

\* file_path values a load or save request carries
configsDir == <<"c","o","n","f","i","g","s">>
RequestPaths == {<<"a",".","j","s","o","n">>, <<"/","t","m","p","/","x",".","j","s","o","n">>, <<".",".","/","c",".","j","s","o","n">>, <<"a",".","t","x","t">>, <<>>}

\* the files of the model's disk
DiskPaths == {<<"c","o","n","f","i","g","s","/","a",".","j","s","o","n">>, <<"/","t","m","p","/","x",".","j","s","o","n">>}

NoFile == [exists |-> FALSE, config |-> ZeroAppConfig]

FileOf(c) == [exists |-> TRUE, config |-> c]

\* filepath.Join of two elements
JoinPath(dir, path) == Clean(dir \o <<"/">> \o path)

\* the path both handlers open: the cleaned path, under configs when relative
configPath(filePath) ==
    IF IsAbs(Clean(filePath)) THEN Clean(filePath) ELSE JoinPath(configsDir, Clean(filePath))

\* the extensions configfile.Load and configfile.Save know
configExts == {<<".","j","s","o","n">>, <<".","y","a","m","l">>, <<".","y","m","l">>}

Server(config, disk) == [config |-> config, disk |-> disk]

InitServer ==
    /\ arg \in {Server(NewDefault, d) :
                  d \in [DiskPaths -> {NoFile, FileOf([ZeroAppConfig EXCEPT !.SourceType = <<"i","n","v","a","l","i","d">>]),
                                       FileOf([ZeroAppConfig EXCEPT !.SourceType = tsv,
                                                                    !.CSVFilePath = <<"/","t","m","p","/","d","a","t","a",".","c","s","v">>])}]}
    /\ ret = NoRet
    /\ DBIdle

Response(op, err, path) == [op |-> op, err |-> err, val |-> path]

\* handleConfig for a POST that stores the decoded configuration before it is
\* validated
HandleConfigStoresFirst ==
    \E c \in PostedConfigs :
       LET v == AppConfigValidate(AppConfigSetDefaults(c)) IN
       /\ arg' = [arg EXCEPT !.config = v.config]
       /\ ret' = Response("handleConfig",
                          IF v.err # nil THEN "Configuration validation failed" ELSE nil, <<>>)
       /\ UNCHANGED dbVars

\* handleConfig for a POST: Decode, SetDefaults, Validate, s.config = &config
HandleConfig ==
    \/ \* the body does not decode
       /\ ret' = Response("handleConfig", "Invalid configuration format", <<>>)
       /\ UNCHANGED <<arg, dbVars>>
    \/ \E c \in PostedConfigs :
          LET v == AppConfigValidate(AppConfigSetDefaults(c)) IN
          IF v.err # nil
          THEN /\ ret' = Response("handleConfig", "Configuration validation failed", <<>>)
               /\ UNCHANGED <<arg, dbVars>>
          ELSE /\ arg' = [arg EXCEPT !.config = v.config]
               /\ ret' = Response("handleConfig", nil, <<>>)
               /\ UNCHANGED dbVars

\* handleLoadConfig: Decode, ValidateFilePath, Clean and Join, configfile.Load,
\* SetDefaults, Validate, s.config = config
HandleLoadConfig ==
    \E filePath \in RequestPaths :
       LET cleanPath == configPath(filePath) IN
       IF ValidateFilePath(filePath) # nil
       THEN /\ ret' = Response("handleLoadConfig", "Invalid file path", <<>>)
            /\ UNCHANGED <<arg, dbVars>>
       ELSE IF ToLower(Ext(cleanPath)) \notin configExts
       THEN /\ ret' = Response("handleLoadConfig", "Failed to load configuration file", <<>>)
            /\ UNCHANGED <<arg, dbVars>>
       ELSE IF cleanPath \notin DiskPaths \/ ~arg.disk[cleanPath].exists
       THEN /\ ret' = Response("handleLoadConfig", "Failed to load configuration file", cleanPath)
            /\ UNCHANGED <<arg, dbVars>>
       ELSE LET v == AppConfigValidate(AppConfigSetDefaults(arg.disk[cleanPath].config)) IN
            IF v.err # nil
            THEN /\ ret' = Response("handleLoadConfig", "Loaded configuration is invalid", cleanPath)
                 /\ UNCHANGED <<arg, dbVars>>
            ELSE /\ arg' = [arg EXCEPT !.config = v.config]
                 /\ ret' = Response("handleLoadConfig", nil, cleanPath)
                 /\ UNCHANGED dbVars

\* handleSaveConfig: Decode, ValidateFilePath, Clean and Join, the extension
\* check, configfile.Save; os.WriteFile may fail
HandleSaveConfig ==
    \E filePath \in RequestPaths :
       LET cleanPath == configPath(filePath) IN
       IF ValidateFilePath(filePath) # nil
       THEN /\ ret' = Response("handleSaveConfig", "Invalid file path", <<>>)
            /\ UNCHANGED <<arg, dbVars>>
       ELSE IF Ext(cleanPath) \notin configExts
       THEN /\ ret' = Response("handleSaveConfig", "Invalid file format", <<>>)
            /\ UNCHANGED <<arg, dbVars>>
       ELSE \/ /\ ret' = Response("handleSaveConfig", "Failed to save configuration file", cleanPath)
               /\ UNCHANGED <<arg, dbVars>>
            \/ /\ cleanPath \in DiskPaths
               /\ arg' = [arg EXCEPT !.disk[cleanPath] = FileOf(arg.config)]
               /\ ret' = Response("handleSaveConfig", nil, cleanPath)
               /\ UNCHANGED dbVars

\* handleProcess: s.config.Validate(), the switch on the source type, the run
\* of the source and the output, whose outcome is the environment's
HandleProcess ==
    LET v == AppConfigValidate(arg.config) IN
    /\ arg' = [arg EXCEPT !.config = v.config]
    /\ \E e \in {nil, "Processing failed", "Failed to save output"} :
          ret' = Response("handleProcess",
                          IF v.err # nil THEN "Invalid configuration"
                          ELSE IF v.config.SourceType \notin {filesystem, csv, tsv, database}
                          THEN "Invalid source type"
                          ELSE e, <<>>)
    /\ UNCHANGED dbVars

\* handleTestDB on the current configuration; the Processor lives for the
\* request only
ServeTestDB ==
    LET q == SetDefaults(NewProcessor(arg.config.DBType, arg.config.DBHost,
                                      arg.config.DBPort, arg.config.DBName,
                                      arg.config.DBUser, arg.config.DBPassword,
                                      arg.config.DBSSLMode))
    IN /\ \E e \in {nil, "Database connection failed"} :
             ret' = Response("handleTestDB",
                             IF arg.config.SourceType # database
                             THEN "Configuration is not set for database source"
                             ELSE IF Validate(q) # nil THEN "Invalid database configuration"
                             ELSE IF driverName(q.DBType) = "" THEN "Database connection failed"
                             ELSE e, <<>>)
       /\ UNCHANGED <<arg, dbVars>>

NextServer ==
    \/ HandleConfig
    \/ HandleLoadConfig
    \/ HandleSaveConfig
    \/ HandleProcess
    \/ ServeTestDB

SpecServer == InitServer /\ [][NextServer]_vars

\* C24: every file a load or a save request opens lies under configs/.
C24_OnlyConfigsDirectory ==
    (ret.op \in {"handleLoadConfig", "handleSaveConfig"} /\ ret.val # <<>>) =>
        HasPrefix(ret.val, configsDir \o <<"/">>)

\* C25: across Connect, Process and Close on one Processor at most one handle it
\* opened is open at any time, and after a Close none is; a Connect on a
\* connected Processor leaves no earlier handle open.
C25_AtMostOneOpenHandle ==
    /\ Cardinality({i \in DOMAIN handles : handles[i] = "open"}) <= 1
    /\ ret.op = "Close" => \A i \in DOMAIN handles : handles[i] = "closed"

\* C26: every query Process sends to the database is a custom query that passes
\* ValidateCustomQuery or was built from identifiers that all pass
\* ValidateSQLIdentifier, in any order of calls, with or without a Validate.
C26_OnlyValidatedQueriesExecuted ==
    \A i \in DOMAIN executed :
        IF p.CustomQuery # <<>>
        THEN executed[i] = p.CustomQuery /\ ValidateCustomQuery(executed[i]) = nil
        ELSE AllIdentifiersValid(p) /\ executed[i] = buildQuery(p).query

\* C27: a configuration Validate accepts has a database type Connect supports,
\* classified by both in the same way: after a successful Validate Connect never
\* answers "unsupported database type", and Validate never asks a sqlite
\* configuration, in any letter case of the type, for host, port or user.
C27_ValidatedTypeIsSupported ==
    arg = "processDatabase" =>
        /\ ret.op = "Connect" => ret.err # "unsupported database type"
        /\ (ret.op = "processDatabase" /\ ToLower(p.DBType) = sqlite) =>
              /\ ret.err # "user is required"
              /\ ret.err # ValidateHost(p.Host) \/ ret.err = nil
              /\ ret.err # ValidatePort(p.Port) \/ ret.err = nil

(***************************************************************************)
(* SpecExtensions: ProcessFiles with extension lists written with and       *)
(* without the leading dot                                                  *)
(***************************************************************************)
ExtensionLists == {<<>>, <<<<"g","o">>>>, <<<<".","g","o">>>>, <<<<".","l","o","g">>, <<"m","d">>>>}

ExtensionConfigs ==
    [Dirs : {<<<<"/","r">>>>, <<<<"/","w">>>>, <<<<"/","r">>, <<"/","w">>>>},
     Recursive : BOOLEAN,
     IgnoreDirs : {<<>>},
     IgnoreFiles : {<<>>, <<<<"a",".","g","o">>>>},
     IgnoreExts : ExtensionLists,
     IncludeExts : ExtensionLists]

InitExtensions ==
    /\ arg \in [config : ExtensionConfigs, unreadable : {{}}]
    /\ ret = NoRet
    /\ DBIdle

SpecExtensions == InitExtensions /\ [][NextFiles]_vars

\* the same list with every leading dot removed
WithoutDots(exts) == [i \in DOMAIN exts |-> TrimPrefix(exts[i], <<".">>)]

\* C28: extensions that pass ValidateFileExtension select the same files with
\* and without their leading dot: the run returns the records of the run whose
\* include and exclude lists are written without dots.
C28_LeadingDotIrrelevant ==
    (/\ ret.op = "ProcessFiles"
     /\ \A i \in DOMAIN arg.config.IncludeExts :
           ValidateFileExtension(arg.config.IncludeExts[i]) = nil
     /\ \A i \in DOMAIN arg.config.IgnoreExts :
           ValidateFileExtension(arg.config.IgnoreExts[i]) = nil) =>
        LET undotted == [arg.config EXCEPT !.IncludeExts = WithoutDots(@),
                                           !.IgnoreExts = WithoutDots(@)]
            other == ProcessFiles(undotted, arg.unreadable)
        IN /\ ret.err = other.err
           /\ ret.val.results = other.results

\* C29: the server's current configuration passes AppConfig.Validate in every
\* state: it starts as the valid default, and a request replaces it only in a
\* successful update or load, by a configuration that passes validation; a
\* rejected update or load, a save, a process and a test-db request leave it
\* as it was.
C29_CurrentConfigValid ==
    /\ [](AppConfigValidate(arg.config).err = nil)
    /\ [][arg'.config # arg.config =>
             /\ ret'.op \in {"handleConfig", "handleLoadConfig"}
             /\ ret'.err = nil
             /\ AppConfigValidate(arg'.config).err = nil]_vars

\* a load has replaced the default by the configuration of a file, completed
\* with its defaults
C29_Witness ==
    /\ ret.op = "handleLoadConfig"
    /\ ret.err = nil
    /\ arg.config.SourceType = tsv
    /\ arg.config.CSVDelimiter = <<"\t">>
    /\ arg.config.OutputFile = <<"o","u","t","p","u","t",".","t","x","t">>

(***************************************************************************)
(* SpecRace: one handleProcess request at a time, step by step, while       *)
(* handleConfig requests are served on other goroutines.  The Server has no *)
(* lock; every read of s.config sees the configuration stored last.  arg    *)
(* holds the current configuration and the position of the process request. *)
(***************************************************************************)
\* what processFilesystem, processCSV and processDatabase read from s.config
\* and pass to their source
SourceFields(source, c) ==
    IF source = filesystem
    THEN [Dirs |-> c.Directories, IgnoreFiles |-> c.IgnoreFiles,
          IgnoreDirs |-> c.IgnoreDirs, IgnoreExts |-> c.ExcludeExtensions,
          IncludeExts |-> c.IncludeExtensions, Recursive |-> c.Recursive]
    ELSE IF source \in {csv, tsv}
    THEN [FilePath |-> c.CSVFilePath,
          Delimiter |-> IF c.CSVDelimiter # <<>> THEN c.CSVDelimiter[1] ELSE ",",
          PathColumn |-> c.CSVPathColumn, ContentColumn |-> c.CSVContentColumn,
          HasHeader |-> c.CSVHasHeader]
    ELSE [NewProcessor(c.DBType, c.DBHost, c.DBPort, c.DBName, c.DBUser,
                       c.DBPassword, c.DBSSLMode)
            EXCEPT !.TableName = c.DBTableName, !.ColumnPath = c.DBColumnPath,
                   !.ColumnContent = c.DBColumnContent, !.ColumnType = c.DBColumnType,
                   !.ColumnSize = c.DBColumnSize, !.CustomQuery = c.DBQuery]

IdleRun == [pc |-> "idle", validated |-> ZeroAppConfig, source |-> <<>>,
            passed |-> <<>>, err |-> nil]

InitRace ==
    /\ arg = [config |-> NewDefault, run |-> IdleRun]
    /\ ret = NoRet
    /\ DBIdle

\* if err := s.config.Validate(); err != nil { sendError; return }
ProcessValidate ==
    /\ arg.run.pc = "idle"
    /\ LET v == AppConfigValidate(arg.config) IN
       arg' = [arg EXCEPT !.config = v.config,
                          !.run = [IdleRun EXCEPT !.pc = IF v.err # nil THEN "done"
                                                        ELSE "validated",
                                                  !.validated = v.config,
                                                  !.err = IF v.err # nil
                                                          THEN "Invalid configuration"
                                                          ELSE nil]]
    /\ UNCHANGED <<ret, dbVars>>

\* switch s.config.SourceType
ProcessSwitch ==
    /\ arg.run.pc = "validated"
    /\ LET source == arg.config.SourceType IN
       IF source \in {filesystem, csv, tsv, database}
       THEN arg' = [arg EXCEPT !.run.pc = "switched", !.run.source = source]
       ELSE arg' = [arg EXCEPT !.run.pc = "done", !.run.source = source,
                               !.run.err = "Invalid source type"]
    /\ UNCHANGED <<ret, dbVars>>

\* s.processFilesystem(), s.processCSV() or s.processDatabase(): the reads of
\* s.config's fields, taken in one step, and the run of the source, whose
\* outcome is the environment's
ProcessCallSource ==
    /\ arg.run.pc = "switched"
    /\ \E e \in {nil, "Processing failed"} :
          arg' = [arg EXCEPT !.run.pc = "done",
                             !.run.passed = SourceFields(arg.run.source, arg.config),
                             !.run.err = e]
    /\ UNCHANGED <<ret, dbVars>>

\* the response of handleProcess; the next request may start
ProcessRespond ==
    /\ arg.run.pc = "done"
    /\ ret' = Response("handleProcess", arg.run.err, <<>>)
    /\ arg' = [arg EXCEPT !.run = IdleRun]
    /\ UNCHANGED dbVars

NextRace ==
    \/ HandleConfig
    \/ ProcessValidate
    \/ ProcessSwitch
    \/ ProcessCallSource
    \/ ProcessRespond

SpecRace == InitRace /\ [][NextRace]_vars

\* the configurations the server can hold: the default and the posted ones
\* that pass validation
ServerConfigs ==
    {NewDefault} \cup
    {AppConfigValidate(AppConfigSetDefaults(c)).config : c \in
        {d \in PostedConfigs : AppConfigValidate(AppConfigSetDefaults(d)).err = nil}}

\* C30: when a process request has run its source, the source type the
\* dispatcher chose and the fields passed to the source come from one single
\* configuration that passed validation, also when configuration updates are
\* handled at the same time.
C30_OneConfigurationPerRequest ==
    (arg.run.pc = "done" /\ arg.run.passed # <<>>) =>
        \E c \in ServerConfigs :
           /\ arg.run.source = c.SourceType
           /\ arg.run.passed = SourceFields(arg.run.source, c)

====
